---------------------------- MODULE Spec2Model ----------------------------
(***************************************************************************)
(* A model of the table monitors of vnpy/trader/ui/widget.py: the cell     *)
(* classes (BaseCell and its subclasses), BaseMonitor's event-driven       *)
(* insert/update of rows, ActiveOrderMonitor's row hiding, and the CSV     *)
(* export.  The Qt table (QTableWidget), its sorting and the queued        *)
(* signal/slot connection are modelled by the behaviour the code relies    *)
(* on at each call site.                                                   *)
(*                                                                         *)
(* Texts are sequences of one-character strings, so that formatting,       *)
(* prefixes and lexicographic order are computed and not assumed.  The     *)
(* display labels and enum labels are written in their English locale      *)
(* rendering (the source passes them through gettext).                     *)
(***************************************************************************)
EXTENDS Integers, Sequences, FiniteSets, TLC

VARIABLES
    monitor,         \* the monitor class that was constructed
    local_tz,        \* TimeCell.local_tz: UTC offset (hours) of the viewer's zone
    items,           \* the cell objects created so far, by identity (1..Len)
    table,           \* the QTableWidget's rows: [cell: column -> id or 0, hidden]
    cells,           \* BaseMonitor.cells: key -> (header -> cell id)
    sortingEnabled,  \* QTableView.isSortingEnabled()
    sortIndicator,   \* horizontal header's sort indicator [section, order]
    queue,           \* queued invocations of process_event posted by signal.emit
    file,            \* content of the CSV file last written ("rows" of fields)
    emitted,         \* history: events the dispatcher handed to signal.emit
    processed,       \* history: events process_event has handled, in order
    last,            \* history: what the latest handler did, stage by stage
    cell,            \* a single cell object exercised on its own (CellSpec)
    widget,          \* the order-entry widget that was constructed, or "none"
    main_engine,     \* what MainEngine answers: gateway names, contracts
    ui,              \* the widget's attributes and the state of its inputs
    act              \* history: what the latest handler of the widget did

vars == <<monitor, local_tz, items, table, cells, sortingEnabled, sortIndicator,
          queue, file, emitted, processed, last, cell,
          widget, main_engine, ui, act>>

tradingVars == <<widget, main_engine, ui, act>>

monitorVars == <<monitor, local_tz, items, table, cells, sortingEnabled,
                 sortIndicator, queue, file, emitted, processed, last>>

-----------------------------------------------------------------------------
(* Bounds of the model.                                                    *)

\* number of events the dispatcher delivers in one behaviour
MaxEvents == 3

\* number of set_content calls made on a cell after its construction (CellSpec)
MaxCalls == 1

-----------------------------------------------------------------------------
(* Python values.  Each value carries a tag t; a text is a sequence of     *)
(* one-character strings.                                                  *)

None == [t |-> "None"]

\* the outcome of data.__getattribute__(name) when the attribute is absent
Missing == [t |-> "AttributeError"]

PyStr(s) == [t |-> "str", s |-> s]

PyInt(n) == [t |-> "int", n |-> n]

\* a float whose shortest repr is [-]ip.fp (fp: the fractional digits)
PyFloat(neg, ip, fp) == [t |-> "float", neg |-> neg, ip |-> ip, fp |-> fp]

\* an Enum member: name is "Class.MEMBER", value its label
PyEnum(name, value) == [t |-> "enum", name |-> name, value |-> value]

PyBool(b) == [t |-> "bool", b |-> b]

\* a datetime: aware with UTC offset utcoffset (hours), or naive (aware FALSE)
PyDatetime(date, hour, minute, second, microsecond, aware, utcoffset) ==
    [t |-> "datetime", date |-> date, hour |-> hour, minute |-> minute,
     second |-> second, microsecond |-> microsecond, aware |-> aware,
     utcoffset |-> utcoffset]

DigitChars == <<"0", "1", "2", "3", "4", "5", "6", "7", "8", "9">>

\* the characters texts are made of, in code point order
Chars == <<"-", ".", "0", "1", "2", "3", "4", "5", "6", "7", "8", "9", ":",
           "A", "B", "C", "D", "E", "F", "G", "H", "I", "J", "K", "L", "M",
           "N", "O", "P", "Q", "R", "S", "T", "U", "V", "W", "X", "Y", "Z",
           "a", "b", "c", "d", "e", "f", "g", "h", "i", "j", "k", "l", "m",
           "n", "o", "p", "q", "r", "s", "t", "u", "v", "w", "x", "y", "z">>

Ord(c) == CHOOSE i \in 1..Len(Chars) : Chars[i] = c

\* Python's str < str: lexicographic by code point, a proper prefix is smaller
RECURSIVE StrLt(_, _)
StrLt(a, b) ==
    IF b = <<>> THEN FALSE
    ELSE IF a = <<>> THEN TRUE
    ELSE IF Head(a) = Head(b) THEN StrLt(Tail(a), Tail(b))
    ELSE Ord(Head(a)) < Ord(Head(b))

\* decimal digits of a natural number, no padding (str(int), f"{int}")
RECURSIVE Decimal(_)
Decimal(n) ==
    IF n < 10 THEN <<DigitChars[n + 1]>>
    ELSE Decimal(n \div 10) \o <<DigitChars[(n % 10) + 1]>>

\* "%02d"-style zero padding to a width (strftime's %H %M %S %m %d, %Y)
ZeroPad(n, width) ==
    LET d == Decimal(n)
    IN  [i \in 1..(width - Len(d)) |-> "0"] \o d

\* str(content)
str(v) ==
    CASE v.t = "str" -> v.s
      [] v.t = "int" -> IF v.n < 0 THEN <<"-">> \o Decimal(-v.n) ELSE Decimal(v.n)
      [] v.t = "float" -> (IF v.neg THEN <<"-">> ELSE <<>>)
                          \o Decimal(v.ip) \o <<".">> \o v.fp
      [] v.t = "enum" -> v.name
      [] v.t = "None" -> <<"N", "o", "n", "e">>

\* Python truth value (the test `if content:`); Enum members are always true
Truthy(v) ==
    CASE v.t = "str" -> v.s /= <<>>
      [] v.t = "int" -> v.n /= 0
      [] v.t = "float" -> ~(v.ip = 0 /\ v.fp = <<"0">>)
      [] v.t = "enum" -> TRUE
      [] v.t = "datetime" -> TRUE
      [] v.t = "bool" -> v.b
      [] v.t = "None" -> FALSE

\* str.startswith
startswith(s, prefix) ==
    /\ Len(s) >= Len(prefix)
    /\ SubSeq(s, 1, Len(prefix)) = prefix

-----------------------------------------------------------------------------
(* datetime.astimezone and strftime                                        *)

IsLeap(y) == (y % 4 = 0 /\ y % 100 /= 0) \/ y % 400 = 0

DaysInMonth(y, m) ==
    IF m = 2 THEN (IF IsLeap(y) THEN 29 ELSE 28)
    ELSE IF m \in {4, 6, 9, 11} THEN 30 ELSE 31

\* the date d (<<year, month, day>>) moved by k days, k in {-1, 0, 1}
AddDay(d, k) ==
    LET y == d[1]
        m == d[2]
        dd == d[3] + k
    IN  IF dd < 1
        THEN IF m = 1 THEN <<y - 1, 12, DaysInMonth(y - 1, 12)>>
             ELSE <<y, m - 1, DaysInMonth(y, m - 1)>>
        ELSE IF dd > DaysInMonth(y, m)
        THEN IF m = 12 THEN <<y + 1, 1, 1>> ELSE <<y, m + 1, 1>>
        ELSE <<y, m, dd>>

\* content.astimezone(tz): the same instant on the clock of offset tz; a naive
\* datetime is taken to be in the system's local zone, which is tz here
astimezone(dt, tz) ==
    LET from == IF dt.aware THEN dt.utcoffset ELSE tz
        h == dt.hour + (tz - from)
    IN  [dt EXCEPT !.hour = h % 24,
                   !.date = AddDay(dt.date, h \div 24),
                   !.aware = TRUE,
                   !.utcoffset = tz]

\* content.strftime("%H:%M:%S")
strftime_HMS(dt) ==
    ZeroPad(dt.hour, 2) \o <<":">> \o ZeroPad(dt.minute, 2) \o <<":">>
    \o ZeroPad(dt.second, 2)

\* content.strftime("%Y-%m-%d")
strftime_Ymd(dt) ==
    ZeroPad(dt.date[1], 4) \o <<"-">> \o ZeroPad(dt.date[2], 2) \o <<"-">>
    \o ZeroPad(dt.date[3], 2)

-----------------------------------------------------------------------------
(* The cell classes.  A cell object is a record: cls its class, _text and  *)
(* _data the Python attributes, text the text the table item displays      *)
(* (QTableWidgetItem.text()), foreground its colour.                       *)

\* BaseCell.__init__ before it calls set_content
NewItem(cls) ==
    [cls |-> cls, _text |-> <<>>, _data |-> None, text |-> <<>>,
     foreground |-> "default"]

BaseCell_set_content(c, content, data) ==
    [c EXCEPT !._text = str(content), !._data = data, !.text = str(content)]

EnumCell_set_content(c, content, data) ==
    IF Truthy(content)
    THEN BaseCell_set_content(c, PyStr(content.value), data)
    ELSE c

Direction_SHORT == PyEnum(<<"D", "i", "r", "e", "c", "t", "i", "o", "n", ".",
                            "S", "H", "O", "R", "T">>,
                          <<"S", "h", "o", "r", "t">>)

DirectionCell_set_content(c, content, data) ==
    [EnumCell_set_content(c, content, data) EXCEPT
        !.foreground = IF content = Direction_SHORT THEN "COLOR_SHORT"
                       ELSE "COLOR_LONG"]

\* a variant of PnlCell.set_content: the colour is chosen once, at construction
PnlCell_set_content_colours_once(c, content, data) ==
    [BaseCell_set_content(c, content, data) EXCEPT
        !.foreground = IF c.foreground /= "default" THEN c.foreground
                       ELSE IF startswith(str(content), <<"-">>) THEN "COLOR_SHORT"
                       ELSE "COLOR_LONG"]

PnlCell_set_content(c, content, data) ==
    [BaseCell_set_content(c, content, data) EXCEPT
        !.foreground = IF startswith(str(content), <<"-">>) THEN "COLOR_SHORT"
                       ELSE "COLOR_LONG"]

\* the text TimeCell.set_content builds from a datetime
TimeCell_timestamp(content) ==
    LET local == astimezone(content, local_tz)
        timestamp == strftime_HMS(local)
        millisecond == local.microsecond \div 1000
    IN  IF millisecond /= 0
        THEN timestamp \o <<".">> \o Decimal(millisecond)
        ELSE timestamp \o <<".", "0", "0", "0">>

\* a variant of TimeCell.set_content: an absent timestamp clears the text
TimeCell_set_content_clears_text(c, content, data) ==
    IF content = None THEN [c EXCEPT !.text = <<>>]
    ELSE [c EXCEPT !.text = TimeCell_timestamp(content), !._data = data]

TimeCell_set_content(c, content, data) ==
    IF content = None THEN c
    ELSE [c EXCEPT !.text = TimeCell_timestamp(content), !._data = data]

DateCell_set_content(c, content, data) ==
    IF content = None THEN c
    ELSE [c EXCEPT !.text = strftime_Ymd(content), !._data = data]

\* cell.set_content(content, data), dispatched on the cell's class
set_content(c, content, data) ==
    CASE c.cls \in {"BaseCell", "BidCell", "AskCell", "MsgCell"} ->
            BaseCell_set_content(c, content, data)
      [] c.cls = "EnumCell" -> EnumCell_set_content(c, content, data)
      [] c.cls = "DirectionCell" -> DirectionCell_set_content(c, content, data)
      [] c.cls = "PnlCell" -> PnlCell_set_content(c, content, data)
      [] c.cls = "TimeCell" -> TimeCell_set_content(c, content, data)
      [] c.cls = "DateCell" -> DateCell_set_content(c, content, data)

\* cls(content, data): BaseCell.__init__ runs set_content, then the subclass
\* constructor sets its fixed colour
NewCell(cls, content, data) ==
    LET c == set_content(NewItem(cls), content, data)
    IN  CASE cls = "BidCell" -> [c EXCEPT !.foreground = "COLOR_BID"]
          [] cls = "AskCell" -> [c EXCEPT !.foreground = "COLOR_ASK"]
          [] OTHER -> c

\* BaseCell.__lt__
Cell_lt(a, b) == StrLt(a._text, b._text)

\* BaseCell.get_data
get_data(c) == c._data

-----------------------------------------------------------------------------
(* The monitors' class attributes.                                         *)

\* (OrderMonitor is covered by its subclass ActiveOrderMonitor)
Monitors == {"LogMonitor", "TradeMonitor", "ActiveOrderMonitor", "PositionMonitor"}

\* one entry of a headers dict: its key, and the display/cell/update settings
Header(name, display, cls, update) ==
    [name |-> name, display |-> display, cell |-> cls, update |-> update]

LogMonitor_headers ==
    <<
      Header("time", <<"T", "i", "m", "e">>,
             "TimeCell", FALSE),
      Header("msg", <<"M", "e", "s", "s", "a", "g", "e">>,
             "MsgCell", FALSE),
      Header("gateway_name", <<"G", "a", "t", "e", "w", "a", "y">>,
             "BaseCell", FALSE)
    >>

TradeMonitor_headers ==
    <<
      Header("tradeid", <<"T", "r", "a", "d", "e", "I", "D">>,
             "BaseCell", FALSE),
      Header("orderid", <<"O", "r", "d", "e", "r", "I", "D">>,
             "BaseCell", FALSE),
      Header("symbol", <<"S", "y", "m", "b", "o", "l">>,
             "BaseCell", FALSE),
      Header("exchange", <<"E", "x", "c", "h", "a", "n", "g", "e">>,
             "EnumCell", FALSE),
      Header("direction", <<"D", "i", "r", "e", "c", "t", "i", "o", "n">>,
             "DirectionCell", FALSE),
      Header("offset", <<"O", "f", "f", "s", "e", "t">>,
             "EnumCell", FALSE),
      Header("price", <<"P", "r", "i", "c", "e">>,
             "BaseCell", FALSE),
      Header("volume", <<"V", "o", "l", "u", "m", "e">>,
             "BaseCell", FALSE),
      Header("datetime", <<"T", "i", "m", "e">>,
             "TimeCell", FALSE),
      Header("gateway_name", <<"G", "a", "t", "e", "w", "a", "y">>,
             "BaseCell", FALSE)
    >>

OrderMonitor_headers ==
    <<
      Header("orderid", <<"O", "r", "d", "e", "r", "I", "D">>,
             "BaseCell", FALSE),
      Header("reference", <<"R", "e", "f", "e", "r", "e", "n", "c", "e">>,
             "BaseCell", FALSE),
      Header("symbol", <<"S", "y", "m", "b", "o", "l">>,
             "BaseCell", FALSE),
      Header("exchange", <<"E", "x", "c", "h", "a", "n", "g", "e">>,
             "EnumCell", FALSE),
      Header("type", <<"T", "y", "p", "e">>,
             "EnumCell", FALSE),
      Header("direction", <<"D", "i", "r", "e", "c", "t", "i", "o", "n">>,
             "DirectionCell", FALSE),
      Header("offset", <<"O", "f", "f", "s", "e", "t">>,
             "EnumCell", FALSE),
      Header("price", <<"P", "r", "i", "c", "e">>,
             "BaseCell", FALSE),
      Header("volume", <<"T", "o", "t", "a", "l", "V", "o", "l", "u", "m", "e">>,
             "BaseCell", TRUE),
      Header("traded", <<"T", "r", "a", "d", "e", "d">>,
             "BaseCell", TRUE),
      Header("status", <<"S", "t", "a", "t", "u", "s">>,
             "EnumCell", TRUE),
      Header("datetime", <<"T", "i", "m", "e">>,
             "TimeCell", TRUE),
      Header("gateway_name", <<"G", "a", "t", "e", "w", "a", "y">>,
             "BaseCell", FALSE)
    >>

PositionMonitor_headers ==
    <<
      Header("symbol", <<"S", "y", "m", "b", "o", "l">>,
             "BaseCell", FALSE),
      Header("exchange", <<"E", "x", "c", "h", "a", "n", "g", "e">>,
             "EnumCell", FALSE),
      Header("direction", <<"D", "i", "r", "e", "c", "t", "i", "o", "n">>,
             "DirectionCell", FALSE),
      Header("volume", <<"V", "o", "l", "u", "m", "e">>,
             "BaseCell", TRUE),
      Header("yd_volume", <<"Y", "d", "V", "o", "l", "u", "m", "e">>,
             "BaseCell", TRUE),
      Header("frozen", <<"F", "r", "o", "z", "e", "n">>,
             "BaseCell", TRUE),
      Header("price", <<"A", "v", "e", "r", "a", "g", "e", "P", "r", "i", "c", "e">>,
             "BaseCell", TRUE),
      Header("pnl", <<"P", "n", "L">>,
             "PnlCell", TRUE),
      Header("gateway_name", <<"G", "a", "t", "e", "w", "a", "y">>,
             "BaseCell", FALSE)
    >>

\* self.headers, in dict order (ActiveOrderMonitor inherits OrderMonitor's)
headers(m) ==
    CASE m = "LogMonitor" -> LogMonitor_headers
      [] m = "TradeMonitor" -> TradeMonitor_headers
      [] m \in {"OrderMonitor", "ActiveOrderMonitor"} -> OrderMonitor_headers
      [] m = "PositionMonitor" -> PositionMonitor_headers

\* self.event_type
event_type(m) ==
    CASE m = "LogMonitor" -> "EVENT_LOG"
      [] m = "TradeMonitor" -> "EVENT_TRADE"
      [] m \in {"OrderMonitor", "ActiveOrderMonitor"} -> "EVENT_ORDER"
      [] m = "PositionMonitor" -> "EVENT_POSITION"

\* a variant of data_key: every monitor is given a row key
data_key_for_every_monitor(m) ==
    CASE m = "LogMonitor" -> "gateway_name"
      [] m = "TradeMonitor" -> "orderid"
      [] m \in {"OrderMonitor", "ActiveOrderMonitor"} -> "vt_orderid"
      [] m = "PositionMonitor" -> "vt_positionid"

\* self.data_key ("" for a monitor without a row key)
data_key(m) ==
    CASE m \in {"LogMonitor", "TradeMonitor"} -> ""
      [] m \in {"OrderMonitor", "ActiveOrderMonitor"} -> "vt_orderid"
      [] m = "PositionMonitor" -> "vt_positionid"

\* self.sorting
sorting(m) == m /= "LogMonitor"

\* self.columnCount() after init_table
columnCount(m) == Len(headers(m))

-----------------------------------------------------------------------------
(* The records the trading engine publishes: sample values of LogData,     *)
(* TradeData, OrderData and PositionData.  A record is a function from     *)
(* attribute names to values.                                              *)

Direction_LONG ==
    PyEnum(<<"D", "i", "r", "e", "c", "t", "i", "o", "n", ".", "L", "O", "N", "G">>,
           <<"L", "o", "n", "g">>)

Direction_NET ==
    PyEnum(<<"D", "i", "r", "e", "c", "t", "i", "o", "n", ".", "N", "E", "T">>,
           <<"N", "e", "t">>)

Exchange_SHFE ==
    PyEnum(<<"E", "x", "c", "h", "a", "n", "g", "e", ".", "S", "H", "F", "E">>,
           <<"S", "H", "F", "E">>)

Offset_OPEN ==
    PyEnum(<<"O", "f", "f", "s", "e", "t", ".", "O", "P", "E", "N">>,
           <<"O", "p", "e", "n">>)

Offset_CLOSE ==
    PyEnum(<<"O", "f", "f", "s", "e", "t", ".", "C", "L", "O", "S", "E">>,
           <<"C", "l", "o", "s", "e">>)

OrderType_LIMIT ==
    PyEnum(<<"O", "r", "d", "e", "r", "T", "y", "p", "e", ".", "L", "I", "M", "I", "T">>,
           <<"L", "i", "m", "i", "t">>)

Status_SUBMITTING ==
    PyEnum(<<"S", "t", "a", "t", "u", "s", ".", "S", "U", "B", "M", "I", "T", "T", "I", "N", "G">>,
           <<"S", "u", "b", "m", "i", "t", "t", "i", "n", "g">>)

Status_NOTTRADED ==
    PyEnum(<<"S", "t", "a", "t", "u", "s", ".", "N", "O", "T", "T", "R", "A", "D", "E", "D">>,
           <<"N", "o", "t", "T", "r", "a", "d", "e", "d">>)

Status_ALLTRADED ==
    PyEnum(<<"S", "t", "a", "t", "u", "s", ".", "A", "L", "L", "T", "R", "A", "D", "E", "D">>,
           <<"A", "l", "l", "T", "r", "a", "d", "e", "d">>)

Status_CANCELLED ==
    PyEnum(<<"S", "t", "a", "t", "u", "s", ".", "C", "A", "N", "C", "E", "L", "L", "E", "D">>,
           <<"C", "a", "n", "c", "e", "l", "l", "e", "d">>)

\* LogData: time is the naive datetime.now()
Log_1 ==
    [time |-> PyDatetime(<<2024, 1, 2>>, 9, 30, 0, 0, FALSE, 0),
     msg |-> PyStr(<<"o", "k">>),
     gateway_name |-> PyStr(<<>>)]

Log_2 ==
    [Log_1 EXCEPT
        !.time = PyDatetime(<<2024, 1, 2>>, 23, 59, 59, 250000, FALSE, 0),
        !.msg = PyStr(<<"c", "o", "n", "n", "e", "c", "t", "e", "d">>),
        !.gateway_name = PyStr(<<"C", "T", "P">>)]

\* TradeData
Trade_1 ==
    [tradeid |-> PyStr(<<"1">>),
     orderid |-> PyStr(<<"1">>),
     symbol |-> PyStr(<<"c", "u">>),
     exchange |-> Exchange_SHFE,
     direction |-> Direction_LONG,
     offset |-> Offset_OPEN,
     price |-> PyFloat(FALSE, 20, <<"5">>),
     volume |-> PyFloat(FALSE, 10, <<"0">>),
     datetime |-> PyDatetime(<<2024, 1, 2>>, 1, 30, 0, 5000, TRUE, 0),
     gateway_name |-> PyStr(<<"C", "T", "P">>)]

Trade_2 ==
    [Trade_1 EXCEPT
        !.tradeid = PyStr(<<"2">>),
        !.direction = None,
        !.offset = Offset_CLOSE,
        !.price = PyFloat(FALSE, 100, <<"0">>),
        !.datetime = None]

\* OrderData; is_active is the outcome of order.is_active()
Order_1a ==
    [vt_orderid |-> PyStr(<<"C", "T", "P", ".", "1">>),
     orderid |-> PyStr(<<"1">>),
     reference |-> PyStr(<<>>),
     symbol |-> PyStr(<<"c", "u">>),
     exchange |-> Exchange_SHFE,
     type |-> OrderType_LIMIT,
     direction |-> Direction_LONG,
     offset |-> Offset_OPEN,
     price |-> PyFloat(FALSE, 20, <<"5">>),
     volume |-> PyFloat(FALSE, 10, <<"0">>),
     traded |-> PyFloat(FALSE, 0, <<"0">>),
     status |-> Status_SUBMITTING,
     datetime |-> None,
     gateway_name |-> PyStr(<<"C", "T", "P">>),
     is_active |-> PyBool(TRUE)]

\* the same order later: filled, and reported with other static fields
Order_1b ==
    [Order_1a EXCEPT
        !.reference = PyStr(<<"c", "t", "a">>),
        !.price = PyFloat(FALSE, 21, <<"0">>),
        !.traded = PyFloat(FALSE, 10, <<"0">>),
        !.status = Status_ALLTRADED,
        !.datetime = PyDatetime(<<2024, 1, 2>>, 9, 30, 0, 5000, TRUE, 8),
        !.is_active = PyBool(FALSE)]

Order_2a ==
    [Order_1a EXCEPT
        !.vt_orderid = PyStr(<<"C", "T", "P", ".", "2">>),
        !.orderid = PyStr(<<"2">>),
        !.direction = Direction_SHORT,
        !.offset = Offset_CLOSE,
        !.price = PyFloat(FALSE, 100, <<"0">>),
        !.status = Status_NOTTRADED,
        !.datetime = PyDatetime(<<2024, 1, 2>>, 16, 59, 59, 250000, TRUE, 0)]

\* PositionData
Position_1a ==
    [vt_positionid |-> PyStr(<<"C", "T", "P", ".", "c", "u", ".", "L", "o", "n", "g">>),
     symbol |-> PyStr(<<"c", "u">>),
     exchange |-> Exchange_SHFE,
     direction |-> Direction_LONG,
     volume |-> PyFloat(FALSE, 2, <<"0">>),
     yd_volume |-> PyFloat(FALSE, 0, <<"0">>),
     frozen |-> PyFloat(FALSE, 0, <<"0">>),
     price |-> PyFloat(FALSE, 20, <<"5">>),
     pnl |-> PyFloat(FALSE, 3, <<"0">>),
     gateway_name |-> PyStr(<<"C", "T", "P">>)]

Position_1b ==
    [Position_1a EXCEPT
        !.volume = PyFloat(FALSE, 1, <<"0">>),
        !.frozen = PyFloat(FALSE, 1, <<"0">>),
        !.pnl = PyFloat(TRUE, 12, <<"5">>),
        !.gateway_name = PyStr(<<"X", "T", "P">>)]

Position_2a ==
    [Position_1a EXCEPT
        !.vt_positionid = PyStr(<<"C", "T", "P", ".", "a", "g", ".", "N", "e", "t">>),
        !.symbol = PyStr(<<"a", "g">>),
        !.direction = Direction_NET,
        !.volume = PyFloat(TRUE, 1, <<"0">>),
        !.pnl = PyFloat(FALSE, 0, <<"0">>)]

\* the records an event of the monitor's type carries
Records(m) ==
    CASE m = "LogMonitor" -> {Log_1, Log_2}
      [] m = "TradeMonitor" -> {Trade_1, Trade_2}
      [] m \in {"OrderMonitor", "ActiveOrderMonitor"} ->
            {Order_1a, Order_1b, Order_2a}
      [] m = "PositionMonitor" -> {Position_1a, Position_1b, Position_2a}

\* a record that lacks one attribute
Without(data, name) == [a \in (DOMAIN data) \ {name} |-> data[a]]

\* records that lack an attribute a configured column expects
PartialRecords(m) ==
    CASE m = "LogMonitor" -> {Without(Log_2, "msg")}
      [] m = "TradeMonitor" -> {Without(Trade_1, "offset")}
      [] m \in {"OrderMonitor", "ActiveOrderMonitor"} ->
            {Without(Order_1b, "traded"), Without(Order_2a, "price")}
      [] m = "PositionMonitor" -> {Without(Position_1b, "frozen")}

\* Event(type, data)
Event(type, data) == [type |-> type, data |-> data]

\* data.__getattribute__(name)
getattribute(data, name) ==
    IF name \in DOMAIN data THEN data[name] ELSE Missing

-----------------------------------------------------------------------------
(* The Qt table behind a monitor.  Operators take and return the widget    *)
(* state w = [items, table, cells, sortingEnabled, sortIndicator] extended *)
(* with what one handler run leaves behind: ops, the table mutations it    *)
(* made, each with the sorting flag at that moment; kind and mid, the      *)
(* branch process_event took and the table right after it; raised,         *)
(* whether an exception left the handler.                                  *)

\* the one element of a singleton set; {F(x) : x \in {e}} computes e once
\* and names it x
The(S) == CHOOSE x \in S : TRUE

\* a row as insertRow creates it: no item in any column, not hidden
EmptyRow == [cell |-> [c \in 0..(columnCount(monitor) - 1) |-> 0], hidden |-> FALSE]

\* records a mutation of the table in w.ops
Mutation(w, op) ==
    [w EXCEPT !.ops = Append(@, [op |-> op, sortingEnabled |-> w.sortingEnabled])]

\* QTableModel's itemLessThan / itemGreaterThan, which call BaseCell.__lt__
Precedes(w, a, b, order) ==
    IF order = "Ascending" THEN Cell_lt(w.items[a], w.items[b])
    ELSE Cell_lt(w.items[b], w.items[a])

\* one step of a stable sort: r goes behind every row it does not precede
RECURSIVE SortInsert(_, _, _, _, _)
SortInsert(w, sorted, r, column, order) ==
    IF sorted = <<>> THEN <<r>>
    ELSE LET y == sorted[Len(sorted)]
         IN  IF Precedes(w, r.cell[column], y.cell[column], order)
             THEN Append(SortInsert(w, SubSeq(sorted, 1, Len(sorted) - 1), r,
                                    column, order), y)
             ELSE Append(sorted, r)

RECURSIVE StableSort(_, _, _, _)
StableSort(w, rows, column, order) ==
    IF rows = <<>> THEN <<>>
    ELSE SortInsert(w, StableSort(w, SubSeq(rows, 1, Len(rows) - 1), column, order),
                    rows[Len(rows)], column, order)

\* QTableModel.sort: rows with an item in the column, stably sorted, then the
\* rows without one; a row moves with its items and its hidden state
sort(w, column, order) ==
    LET Sortable(r) == column \in DOMAIN r.cell /\ r.cell[column] /= 0
        Unsortable(r) == ~Sortable(r)
    IN  [w EXCEPT !.table = StableSort(w, SelectSeq(w.table, Sortable), column, order)
                            \o SelectSeq(w.table, Unsortable)]

\* QTableView.setSortingEnabled: enabling sorts by the header's sort indicator
setSortingEnabled(w, enable) ==
    IF enable
    THEN [sort(w, w.sortIndicator.section, w.sortIndicator.order)
            EXCEPT !.sortingEnabled = TRUE]
    ELSE [w EXCEPT !.sortingEnabled = FALSE]

\* the sorted view keeps itself sorted when an item of the sort column is set
\* or changes
keepSorted(w, column) ==
    IF w.sortingEnabled /\ w.sortIndicator.section = column
    THEN sort(w, w.sortIndicator.section, w.sortIndicator.order)
    ELSE w

\* a variant of insertRow: the new row goes to the bottom of the table
insertRow_at_bottom(w, row) ==
    [Mutation(w, "insertRow") EXCEPT !.table = Append(w.table, EmptyRow)]

\* self.insertRow(row)
insertRow(w, row) ==
    [Mutation(w, "insertRow") EXCEPT
        !.table = SubSeq(w.table, 1, row) \o <<EmptyRow>>
                  \o SubSeq(w.table, row + 1, Len(w.table))]

\* self.setItem(row, column, cell), cell given by its identity
setItem(w, row, column, id) ==
    The({keepSorted(set, column) :
            set \in {[Mutation(w, "setItem") EXCEPT
                        !.table[row + 1].cell[column] = id]}})

\* self.item(row, column): the identity of the item, 0 for none
item(w, row, column) == w.table[row + 1].cell[column]

\* self.row(cell): the row holding the item, -1 when no row does
row(w, id) ==
    IF \E r \in 1..Len(w.table) : \E c \in DOMAIN w.table[r].cell :
            w.table[r].cell[c] = id
    THEN (CHOOSE r \in 1..Len(w.table) : \E c \in DOMAIN w.table[r].cell :
            w.table[r].cell[c] = id) - 1
    ELSE -1

\* self.column(cell) of an item that is in the table
column(w, id) ==
    CHOOSE c \in 0..(columnCount(monitor) - 1) :
        \E r \in 1..Len(w.table) : w.table[r].cell[c] = id

\* a variant of hideRow: the row is removed from the table
setRowHidden_removes_row(w, r, hide) ==
    IF r >= 0 /\ r < Len(w.table) /\ hide
    THEN [w EXCEPT !.table = SubSeq(w.table, 1, r) \o SubSeq(w.table, r + 2, Len(w.table))]
    ELSE w

\* self.showRow(row) / self.hideRow(row); a row outside the table is ignored
setRowHidden(w, r, hide) ==
    IF r >= 0 /\ r < Len(w.table)
    THEN [w EXCEPT !.table[r + 1].hidden = hide]
    ELSE w

\* self.isRowHidden(row)
isRowHidden(w, r) == w.table[r + 1].hidden

\* self.rowCount()
rowCount(w) == Len(w.table)

-----------------------------------------------------------------------------
(* BaseMonitor                                                             *)

\* the exception leaves the handler: what was done so far stays done
Raise(w) == [w EXCEPT !.raised = TRUE]

\* the for loop of insert_new_row from `col` on; row_cells is the dict so far
RECURSIVE insert_columns(_, _, _, _)
insert_columns(w, row_cells, col, data) ==
    IF col >= columnCount(monitor) THEN [w |-> w, row_cells |-> row_cells]
    ELSE LET setting == headers(monitor)[col + 1]
             content == getattribute(data, setting.name)
         IN  IF content = Missing
             THEN [w |-> Raise(w), row_cells |-> row_cells]
             ELSE LET id == Len(w.items) + 1
                      rc == IF setting.update
                            THEN (setting.name :> id) @@ row_cells
                            ELSE row_cells
                  IN  The({insert_columns(setItem(w1, 0, col, id), rc, col + 1, data) :
                             w1 \in {[w EXCEPT !.items =
                                Append(@, NewCell(setting.cell, content, data))]}})

\* a variant of insert_new_row: the cells of all columns are registered
insert_new_row_registers_every_cell(w, data) ==
    LET key == getattribute(data, data_key(monitor))
    IN  The({IF r.w.raised THEN r.w
             ELSE IF data_key(monitor) = "" THEN r.w
             ELSE IF key = Missing THEN Raise(r.w)
             ELSE [r.w EXCEPT !.cells =
                      (key :> [h \in {headers(monitor)[c].name :
                                         c \in 1..columnCount(monitor)} |->
                                 r.w.table[1].cell[
                                    (CHOOSE c \in 1..columnCount(monitor) :
                                        headers(monitor)[c].name = h) - 1]]) @@ @] :
                r \in {The({insert_columns(w0, <<>>, 0, data) :
                              w0 \in {insertRow(w, 0)}})}})

\* BaseMonitor.insert_new_row
insert_new_row(w, data) ==
    LET key == getattribute(data, data_key(monitor))
    IN  The({IF r.w.raised THEN r.w
             ELSE IF data_key(monitor) = "" THEN r.w
             ELSE IF key = Missing THEN Raise(r.w)
             ELSE [r.w EXCEPT !.cells = (key :> r.row_cells) @@ @] :
                r \in {The({insert_columns(w0, <<>>, 0, data) :
                              w0 \in {insertRow(w, 0)}})}})

\* the for loop of update_old_row over row_cells.items(), from `col` on
RECURSIVE update_cells(_, _, _, _)
update_cells(w, row_cells, col, data) ==
    IF col >= columnCount(monitor) THEN w
    ELSE LET header == headers(monitor)[col + 1].name
             content == getattribute(data, header)
             id == row_cells[header]
         IN  IF header \notin DOMAIN row_cells
             THEN update_cells(w, row_cells, col + 1, data)
             ELSE IF content = Missing THEN Raise(w)
             ELSE The({update_cells(keepSorted(set, column(w, id)),
                                    row_cells, col + 1, data) :
                         set \in {[Mutation(w, "set_content") EXCEPT
                                    !.items[id] = set_content(@, content, data)]}})

\* a variant of update_old_row: it goes over every column of the key's row
update_old_row_every_column(w, data) ==
    LET key == getattribute(data, data_key(monitor))
        live == CHOOSE h \in DOMAIN w.cells[key] : TRUE
        r == row(w, w.cells[key][live])
        names == {headers(monitor)[c].name : c \in 1..columnCount(monitor)}
        col(name) == CHOOSE c \in 1..columnCount(monitor) :
                        headers(monitor)[c].name = name
    IN  update_cells(w, [name \in names |-> item(w, r, col(name) - 1)], 0, data)

\* BaseMonitor.update_old_row
update_old_row(w, data) ==
    LET key == getattribute(data, data_key(monitor))
    IN  update_cells(w, w.cells[key], 0, data)

\* a variant of upsert: the key is never looked up
upsert_always_inserts(w, data) ==
    [insert_new_row(w, data) EXCEPT !.kind = "insert"]

\* the branch of process_event between the two sorting switches
upsert(w, data) ==
    LET key == getattribute(data, data_key(monitor))
    IN  IF data_key(monitor) = ""
        THEN [insert_new_row(w, data) EXCEPT !.kind = "insert"]
        ELSE IF key = Missing THEN Raise(w)
        ELSE IF key \in DOMAIN w.cells
        THEN [update_old_row(w, data) EXCEPT !.kind = "update"]
        ELSE [insert_new_row(w, data) EXCEPT !.kind = "insert"]

\* what the table looks like at one moment
Snapshot(w) == [table |-> w.table, items |-> w.items, cells |-> w.cells]

\* a variant of process_event: sorting stays enabled during the insert/update
process_event_keeps_sorting(w, event) ==
    The({IF sorting(monitor) /\ ~w2.raised
         THEN setSortingEnabled([w2 EXCEPT !.mid = Snapshot(w2)], TRUE)
         ELSE [w2 EXCEPT !.mid = Snapshot(w2)] :
            w2 \in {upsert(w, event.data)}})

\* BaseMonitor.process_event
process_event(w, event) ==
    The({IF w2.raised THEN [w2 EXCEPT !.mid = Snapshot(w2)]
         ELSE IF sorting(monitor)
         THEN setSortingEnabled([w2 EXCEPT !.mid = Snapshot(w2)], TRUE)
         ELSE [w2 EXCEPT !.mid = Snapshot(w2)] :
            w2 \in {The({upsert(w1, event.data) :
                w1 \in {IF sorting(monitor) THEN setSortingEnabled(w, FALSE)
                        ELSE w}})}})

\* a variant of ActiveOrderMonitor.process_event: the row shown or hidden is
\* row 0, where insert_new_row put the order
ActiveOrderMonitor_process_event_top_row(w, event) ==
    LET order == event.data
    IN  The({IF w1.raised THEN w1
             ELSE IF order.is_active.b THEN setRowHidden(w1, 0, FALSE)
             ELSE setRowHidden(w1, 0, TRUE) :
                w1 \in {process_event(w, event)}})

\* ActiveOrderMonitor.process_event
ActiveOrderMonitor_process_event(w, event) ==
    LET order == event.data
    IN  The({IF w1.raised THEN w1
             ELSE The({IF order.is_active.b THEN setRowHidden(w1, r, FALSE)
                       ELSE setRowHidden(w1, r, TRUE) :
                          r \in {row(w1, w1.cells[order.vt_orderid]["volume"])}}) :
                w1 \in {process_event(w, event)}})

\* the slot connected to self.signal
slot(w, event) ==
    IF monitor = "ActiveOrderMonitor"
    THEN ActiveOrderMonitor_process_event(w, event)
    ELSE process_event(w, event)

\* the rows save_csv writes from table row r on
RECURSIVE csv_rows(_, _)
csv_rows(w, r) ==
    IF r >= rowCount(w) THEN <<>>
    ELSE IF isRowHidden(w, r) THEN csv_rows(w, r + 1)
    ELSE <<[c \in 1..columnCount(monitor) |->
              IF item(w, r, c - 1) /= 0 THEN w.items[item(w, r, c - 1)].text
              ELSE <<>>]>>
         \o csv_rows(w, r + 1)

\* a variant of save_csv: hidden rows are written like the others
save_csv_every_row(w, path, before) ==
    IF path = "" THEN before
    ELSE <<[c \in 1..columnCount(monitor) |-> headers(monitor)[c].display]>>
         \o [r \in 1..rowCount(w) |->
                [c \in 1..columnCount(monitor) |->
                    IF item(w, r - 1, c - 1) /= 0
                    THEN w.items[item(w, r - 1, c - 1)].text
                    ELSE <<>>]]

\* BaseMonitor.save_csv: the content of the file after the call, given the
\* path the file dialog returned and the content before
save_csv(w, path, before) ==
    IF path = "" THEN before
    ELSE <<[c \in 1..columnCount(monitor) |-> headers(monitor)[c].display]>>
         \o csv_rows(w, 0)

\* a variant of register_event: process_event itself is registered
register_event_registers_slot(m) ==
    IF event_type(m) /= ""
    THEN [connected |-> FALSE, handler |-> "process_event"]
    ELSE [connected |-> FALSE, handler |-> "none"]

\* BaseMonitor.register_event: the callable handed to event_engine.register
\* and whether self.signal got connected to process_event
register_event(m) ==
    IF event_type(m) /= ""
    THEN [connected |-> TRUE, handler |-> "signal.emit"]
    ELSE [connected |-> FALSE, handler |-> "none"]

-----------------------------------------------------------------------------
(* The monitor as a state machine.                                         *)

\* UTC offsets of the viewer's zone the monitor runs are explored under
MonitorZones == {8}

\* header sections the user clicks to sort by
ClickedSections(m) ==
    CASE m = "TradeMonitor" -> {0, 6}
      [] m \in {"OrderMonitor", "ActiveOrderMonitor"} -> {0, 9}
      [] m = "PositionMonitor" -> {0, 7}
      [] OTHER -> {}

\* the paths the save-file dialog returns ("" when it is cancelled)
Paths == {"", "monitor.csv"}

NoCell == [created |-> FALSE]

\* no order-entry widget was constructed
NoWidget ==
    /\ widget = "none"
    /\ main_engine = [gateway_names |-> <<>>]
    /\ ui = [vt_symbol |-> <<>>]
    /\ act = [handler |-> "none"]

\* the widget state the handlers work on, from the variables
Self ==
    [items |-> items, table |-> table, cells |-> cells,
     sortingEnabled |-> sortingEnabled, sortIndicator |-> sortIndicator,
     ops |-> <<>>, kind |-> "none", mid |-> None, raised |-> FALSE]

\* BaseMonitor.__init__: init_table on the empty table, load_setting (which
\* resets the sort indicator when a saved column state exists), register_event
Init ==
    /\ monitor \in Monitors
    /\ local_tz \in MonitorZones
    /\ items = <<>>
    /\ table = <<>>
    /\ cells = <<>>
    /\ sortingEnabled = sorting(monitor)
    /\ sortIndicator \in {[section |-> 0, order |-> "Descending"],
                          [section |-> -1, order |-> "Ascending"]}
    /\ queue = <<>>
    /\ file = <<>>
    /\ emitted = <<>>
    /\ processed = <<>>
    /\ last = [handler |-> "__init__"]
    /\ cell = NoCell
    /\ NoWidget

\* the widget state w becomes the state, `how` what the handler left behind
Becomes(w, how) ==
    /\ items' = w.items
    /\ table' = w.table
    /\ cells' = w.cells
    /\ sortingEnabled' = w.sortingEnabled
    /\ sortIndicator' = w.sortIndicator
    /\ last' = how

\* what a run of the slot on `event` leaves behind
Ran(w, event) ==
    [handler |-> "process_event", event |-> event, kind |-> w.kind,
     ops |-> w.ops, before |-> Snapshot(Self), mid |-> w.mid,
     raised |-> w.raised]

\* The event engine's thread calls the handler registered for the event type
\* with an event.  The handler is signal.emit: the connection to process_event
\* is queued across threads, so the call is posted to the UI thread.
Dispatch(data) ==
    LET event == Event(event_type(monitor), data)
        handler == register_event(monitor).handler
    IN  /\ Len(emitted) < MaxEvents
        /\ handler /= "none"
        /\ emitted' = Append(emitted, event)
        /\ IF handler = "signal.emit"
           THEN /\ queue' = Append(queue, event)
                /\ UNCHANGED <<items, table, cells, sortingEnabled, sortIndicator,
                               processed, last>>
           ELSE /\ \E self \in {Self} : \E w \in {slot(self, event)} :
                        Becomes(w, Ran(w, event))
                /\ processed' = Append(processed, event)
                /\ UNCHANGED queue
        /\ UNCHANGED <<monitor, local_tz, file, cell, tradingVars>>

\* The UI thread's event loop takes the oldest posted call and runs the slot
\* to completion.
ProcessEvent ==
    /\ queue /= <<>>
    /\ \E self \in {Self} : \E w \in {slot(self, Head(queue))} :
            Becomes(w, Ran(w, Head(queue)))
    /\ queue' = Tail(queue)
    /\ processed' = Append(processed, Head(queue))
    /\ UNCHANGED <<monitor, local_tz, file, emitted, cell, tradingVars>>

\* The user clicks a header section of a table with sorting enabled: the sort
\* indicator flips and the table is sorted by it.
ClickHeader(section) ==
    /\ sortingEnabled
    /\ LET order == IF sortIndicator.section = section
                       /\ sortIndicator.order = "Ascending"
                    THEN "Descending" ELSE "Ascending"
           w == [Self EXCEPT !.sortIndicator = [section |-> section, order |-> order]]
       IN  \E self \in {w} :
                Becomes(sort(self, section, order), [handler |-> "sortIndicatorChanged"])
    /\ UNCHANGED <<monitor, local_tz, queue, file, emitted, processed, cell, tradingVars>>

\* The user picks "save data" in the context menu.
SaveCsv(path) ==
    /\ \E self \in {Self} : file' = save_csv(self, path, file)
    /\ last' = [handler |-> "save_csv", path |-> path]
    /\ UNCHANGED <<monitor, local_tz, items, table, cells, sortingEnabled,
                   sortIndicator, queue, emitted, processed, cell, tradingVars>>

\* The monitor under the events of the engine and the user's sorting.  (The
\* export reads the table and changes none of these variables; it is explored
\* in ExportSpec.)
Next ==
    \/ \E data \in Records(monitor) : Dispatch(data)
    \/ ProcessEvent
    \/ \E section \in ClickedSections(monitor) : ClickHeader(section)

Spec == Init /\ [][Next]_vars

\* the same monitor when the engine may also publish records that lack an
\* attribute
PartialNext ==
    \/ Next
    \/ \E data \in PartialRecords(monitor) : Dispatch(data)

PartialSpec == Init /\ [][PartialNext]_vars

\* the monitor under events of both kinds of records, and the user's export
ExportNext ==
    \/ \E data \in Records(monitor) \cup PartialRecords(monitor) : Dispatch(data)
    \/ ProcessEvent
    \/ \E path \in Paths : SaveCsv(path)

ExportSpec == Init /\ [][ExportNext]_vars

-----------------------------------------------------------------------------
(* Claims about the monitors.                                              *)

Keyed == data_key(monitor) /= ""

\* the row key an event carries
KeyOf(event) == event.data[data_key(monitor)]

\* the latest step ran the slot on an event
Handled == last.handler = "process_event"

\* the key values of the events processed so far, and of all but the latest
SeenKeys == {KeyOf(processed[i]) : i \in 1..Len(processed)}

SeenKeysBefore == {KeyOf(processed[i]) : i \in 1..(Len(processed) - 1)}

\* the identities of the items in a table's row
RowIds(tbl, r) == {tbl[r].cell[c] : c \in DOMAIN tbl[r].cell} \ {0}

\* the identities of all items in a table
TableIds(tbl) == UNION {RowIds(tbl, r) : r \in 1..Len(tbl)}

\* the key values of the records the cells of table row r were rendered from
RowKeys(r) ==
    {items[id]._data[data_key(monitor)] :
        id \in {i \in RowIds(table, r) : items[i]._data /= None}}

\* the record of the first processed event that carried key k
FirstRecord(k) ==
    processed[CHOOSE i \in 1..Len(processed) :
                /\ KeyOf(processed[i]) = k
                /\ \A j \in 1..(i - 1) : KeyOf(processed[j]) /= k].data

\* the table row (1-based) that holds the registered cells of key k
KeyRow(k) ==
    CHOOSE r \in 1..Len(table) : \E h \in DOMAIN cells[k] : cells[k][h] \in RowIds(table, r)

\* the text a fresh cell of column c (1-based) shows for a record
Rendered(c, data) ==
    NewCell(headers(monitor)[c].cell, data[headers(monitor)[c].name], data).text

\* C1: in a monitor with a row key the table holds exactly one row per distinct
\* key value seen: the first event with a key inserts a row, every later event
\* with that key updates in place and adds no row.
C1_OneRowPerKey ==
    Keyed =>
        /\ Len(table) = Cardinality(SeenKeys)
        /\ \A k \in SeenKeys :
              Cardinality({r \in 1..Len(table) : k \in RowKeys(r)}) = 1
        /\ Handled =>
              /\ last.kind = "insert" <=> KeyOf(last.event) \notin SeenKeysBefore
              /\ last.kind = "update" =>
                    Len(last.mid.table) = Len(last.before.table)

\* a key was seen twice and another key once: two rows for three events
C1_Witness ==
    /\ Keyed /\ Len(processed) = 3 /\ Len(table) = 2
    /\ Handled /\ last.kind = "update"
    /\ KeyOf(processed[1]) = KeyOf(processed[3])

\* C2: in a monitor without a row key (LogMonitor, TradeMonitor: data_key is
\* empty) every processed event inserts a row: after
\* N events there are N rows, also for identical records, and the registry
\* stays empty.
C2_KeylessAppends ==
    monitor \in {"LogMonitor", "TradeMonitor"} =>
        /\ Len(table) = Len(processed)
        /\ DOMAIN cells = {}
        /\ Handled => last.kind = "insert"

C2_Witness ==
    /\ monitor \in {"LogMonitor", "TradeMonitor"}
    /\ Len(processed) = 3 /\ Len(table) = 3
    /\ processed[1] = processed[2]

\* C3: an update re-renders only the cells registered for the key; the cell of
\* every column marked update=False shows, for every key, the text rendered
\* from the first event that carried the key.
C3_StaticColumnsKeepFirstText ==
    Keyed =>
        /\ \A k \in DOMAIN cells : \A c \in 1..columnCount(monitor) :
              ~headers(monitor)[c].update =>
                 items[table[KeyRow(k)].cell[c - 1]].text = Rendered(c, FirstRecord(k))
        /\ (Handled /\ last.kind = "update") =>
              LET live == {cells[KeyOf(last.event)][h] :
                              h \in DOMAIN cells[KeyOf(last.event)]}
              IN  /\ last.mid.table = last.before.table
                  /\ \A id \in (1..Len(last.before.items)) \ live :
                        last.mid.items[id] = last.before.items[id]
                  /\ \A h \in DOMAIN cells[KeyOf(last.event)] :
                        last.mid.items[cells[KeyOf(last.event)][h]] =
                            set_content(last.before.items[cells[KeyOf(last.event)][h]],
                                        last.event.data[h], last.event.data)

\* an update whose record differs from the first one in a static column
C3_Witness ==
    /\ Keyed /\ Handled /\ last.kind = "update"
    /\ \E c \in 1..columnCount(monitor) :
          /\ ~headers(monitor)[c].update
          /\ Rendered(c, last.event.data) /=
                Rendered(c, FirstRecord(KeyOf(last.event)))

\* C4: right after insert_new_row, row 0 holds one rendered cell for every
\* configured column, in header order, and every row that was at index i is
\* at index i + 1 with its cells unchanged.
C4_InsertAtTop ==
    (Handled /\ last.kind = "insert") =>
        LET b == last.before
            a == last.mid
        IN  /\ Len(a.table) = Len(b.table) + 1
            /\ \A c \in 1..columnCount(monitor) :
                  /\ a.table[1].cell[c - 1] \notin TableIds(b.table) \cup {0}
                  /\ a.items[a.table[1].cell[c - 1]] =
                        NewCell(headers(monitor)[c].cell,
                                last.event.data[headers(monitor)[c].name],
                                last.event.data)
            /\ Cardinality(RowIds(a.table, 1)) = columnCount(monitor)
            /\ \A i \in 1..Len(b.table) : a.table[i + 1] = b.table[i]
            /\ \A id \in 1..Len(b.items) : a.items[id] = b.items[id]

\* an insert above two rows that differ
C4_Witness ==
    /\ Handled /\ last.kind = "insert"
    /\ Len(last.before.table) = 2
    /\ last.mid.table[2] /= last.mid.table[3]

\* C5: in a monitor configured with sorting, no insert and no cell mutation
\* happens while sorting is enabled, and after every processed event the
\* sorting flag equals the configured value.
C5_SortingSuspended ==
    /\ sortingEnabled = sorting(monitor)
    /\ Handled =>
          /\ Len(last.ops) > 0
          /\ \A i \in 1..Len(last.ops) : ~last.ops[i].sortingEnabled

\* an update in a sorted table of two rows
C5_Witness ==
    /\ sorting(monitor) /\ sortingEnabled
    /\ sortIndicator.section >= 0
    /\ Handled /\ last.kind = "update" /\ Len(table) = 2

\* C6: when a record lacks a field a configured column expects, only that
\* field's render is skipped: the event is processed to its end, the other
\* columns of the row are rendered, the row is registered under its key, and
\* a later event with the key updates that row instead of adding one.
C6_SkipsOnlyTheMissingField ==
    /\ Handled => ~last.raised
    /\ sortingEnabled = sorting(monitor)
    /\ Keyed =>
          /\ SeenKeys \subseteq DOMAIN cells
          /\ Len(table) = Cardinality(SeenKeys)
    /\ (Handled /\ last.kind = "insert") =>
          \A c \in 1..columnCount(monitor) :
             headers(monitor)[c].name \in DOMAIN last.event.data =>
                last.mid.table[1].cell[c - 1] /= 0

\* C7: rows are never removed: over any step the row count does not decrease,
\* every item of the table stays in the table, and a key once in the registry
\* stays there; an ActiveOrderMonitor hides rows and deletes none.
C7_RowsNeverRemoved ==
    [][/\ Len(table') >= Len(table)
       /\ TableIds(table) \subseteq TableIds(table')
       /\ DOMAIN cells \subseteq DOMAIN cells']_vars

\* an ActiveOrderMonitor with a hidden row beside a shown one
C7_Witness ==
    /\ monitor = "ActiveOrderMonitor" /\ Len(table) = 2
    /\ \E r \in 1..2 : table[r].hidden
    /\ \E r \in 1..2 : ~table[r].hidden

\* C8: the callback registered with the dispatcher only hands the event over
\* (signal.emit) and never touches the table; the slot runs on the UI thread,
\* one event at a time, each emitted event exactly once and in the order of
\* delivery.
C8_EmitOnlyHandsOver ==
    /\ [](emitted = processed \o queue)
    /\ [][/\ emitted' /= emitted =>
                /\ UNCHANGED <<items, table, cells, sortingEnabled, sortIndicator,
                               file, processed, last>>
                /\ queue' = Append(queue, emitted'[Len(emitted')])
          /\ processed' /= processed =>
                /\ queue /= <<>>
                /\ processed' = Append(processed, Head(queue))
                /\ queue' = Tail(queue)
                /\ emitted' = emitted
                /\ last'.handler = "process_event"
                /\ last'.event = Head(queue)]_vars

\* two events wait for the UI thread while one has been processed
C8_Witness == Len(queue) = 2 /\ Len(processed) = 1

\* the rows of the table that are not hidden, in display order
VisibleRows(tbl) == SelectSeq(tbl, LAMBDA r : ~r.hidden)

\* C9: save_csv with a chosen path writes the line of display labels and then
\* one line per row that is not hidden, in display order, each holding the
\* text of every column ("" for a missing cell); with an empty path nothing
\* is written.
C9_CsvExport ==
    [][last'.handler = "save_csv" =>
        IF last'.path = "" THEN file' = file
        ELSE LET shown == VisibleRows(table')
             IN  /\ Len(file') = 1 + Len(shown)
                 /\ \A c \in 1..columnCount(monitor) :
                       file'[1][c] = headers(monitor)[c].display
                 /\ \A i \in 1..Len(shown) :
                       /\ DOMAIN file'[i + 1] = 1..columnCount(monitor)
                       /\ \A c \in 1..columnCount(monitor) :
                             file'[i + 1][c] =
                                IF shown[i].cell[c - 1] = 0 THEN <<>>
                                ELSE items'[shown[i].cell[c - 1]].text]_vars

\* an export of a table with a hidden row, a shown row and a row that lacks a
\* cell
C9_Witness ==
    /\ last.handler = "save_csv" /\ last.path /= ""
    /\ \E r \in 1..Len(table) : table[r].hidden
    /\ \E r \in 1..Len(table) :
          ~table[r].hidden /\ (\E c \in DOMAIN table[r].cell : table[r].cell[c] = 0)
    /\ \E r \in 1..Len(table) :
          ~table[r].hidden /\ (\A c \in DOMAIN table[r].cell : table[r].cell[c] /= 0)

-----------------------------------------------------------------------------
(* One cell on its own: constructed with a content, then given further     *)
(* contents by set_content.                                                *)

\* UTC offsets of the viewer's zone the cell is explored under
CellZones == {-5, 8}

CellClasses == {"BaseCell", "EnumCell", "DirectionCell", "BidCell", "AskCell",
                "PnlCell", "TimeCell", "DateCell", "MsgCell"}

\* microsecond components of the sample timestamps
Microseconds == {0, 999, 1000, 5000, 50000, 99999, 100000, 250000, 999999}

\* sample datetimes: aware ones on two clocks, and a naive one
Datetimes ==
    {PyDatetime(<<2024, 2, 29>>, c.hour, 30, 5, us, c.aware, c.utcoffset) :
        c \in {[hour |-> 9, aware |-> TRUE, utcoffset |-> 8],
               [hour |-> 23, aware |-> TRUE, utcoffset |-> 0],
               [hour |-> 0, aware |-> FALSE, utcoffset |-> 0]},
        us \in Microseconds}

\* the contents a cell of the class is given
Contents(cls) ==
    CASE cls \in {"BaseCell", "BidCell", "AskCell", "MsgCell"} ->
            {PyStr(<<"1", "0", "0">>), PyStr(<<"2", "0">>), PyStr(<<>>),
             PyFloat(FALSE, 20, <<"5">>), PyInt(-7)}
      [] cls = "EnumCell" -> {None, Status_SUBMITTING, Status_ALLTRADED, Offset_OPEN}
      [] cls = "DirectionCell" ->
            {None, Direction_LONG, Direction_SHORT, Direction_NET}
      [] cls = "PnlCell" ->
            {PyFloat(TRUE, 12, <<"5">>), PyFloat(FALSE, 3, <<"0">>),
             PyFloat(FALSE, 0, <<"0">>), PyFloat(TRUE, 0, <<"0">>), PyInt(0),
             PyInt(-1), PyStr(<<>>)}
      [] cls \in {"TimeCell", "DateCell"} -> {None} \cup Datetimes

\* the data object that comes with a content
DataOf(content) == [value |-> content]

CellInit ==
    /\ monitor = "LogMonitor"
    /\ local_tz \in CellZones
    /\ items = <<>>
    /\ table = <<>>
    /\ cells = <<>>
    /\ sortingEnabled = FALSE
    /\ sortIndicator = [section |-> 0, order |-> "Descending"]
    /\ queue = <<>>
    /\ file = <<>>
    /\ emitted = <<>>
    /\ processed = <<>>
    /\ last = [handler |-> "__init__"]
    /\ cell = NoCell
    /\ NoWidget

\* cls(content, data)
Construct(cls, content) ==
    /\ ~cell.created
    /\ cell' = [created |-> TRUE,
                obj |-> NewCell(cls, content, DataOf(content)),
                prev |-> NewItem(cls),
                given |-> <<content>>]
    /\ UNCHANGED <<monitorVars, tradingVars>>

\* cell.set_content(content, data)
SetContent(content) ==
    /\ cell.created
    /\ Len(cell.given) <= MaxCalls
    /\ cell' = [cell EXCEPT !.obj = set_content(@, content, DataOf(content)),
                            !.prev = cell.obj,
                            !.given = Append(@, content)]
    /\ UNCHANGED <<monitorVars, tradingVars>>

CellNext ==
    \/ \E cls \in CellClasses : \E content \in Contents(cls) : Construct(cls, content)
    \/ /\ cell.created
       /\ \E content \in Contents(cell.obj.cls) : SetContent(content)

CellSpec == CellInit /\ [][CellNext]_vars

\* the content the cell was given last
Given == cell.given[Len(cell.given)]

-----------------------------------------------------------------------------
(* Two cells side by side, as the table's sort compares them: each is      *)
(* constructed with a content and may be given further contents.           *)

\* the contents the compared cells are given
ComparedContents(cls) ==
    IF cls \in {"TimeCell", "DateCell"}
    THEN {None,
          PyDatetime(<<2024, 2, 29>>, 9, 30, 5, 0, TRUE, 8),
          PyDatetime(<<2024, 3, 1>>, 14, 0, 0, 250000, TRUE, 8)}
    ELSE Contents(cls)

CompareInit ==
    /\ monitor = "LogMonitor"
    /\ local_tz \in MonitorZones
    /\ items = <<>>
    /\ table = <<>>
    /\ cells = <<>>
    /\ sortingEnabled = FALSE
    /\ sortIndicator = [section |-> 0, order |-> "Descending"]
    /\ queue = <<>>
    /\ file = <<>>
    /\ emitted = <<>>
    /\ processed = <<>>
    /\ last = [handler |-> "__init__"]
    /\ cell = NoCell
    /\ NoWidget

\* two cells are constructed: self and other of __lt__
ConstructPair(cls, content, otherCls, otherContent) ==
    /\ items = <<>>
    /\ items' = <<NewCell(cls, content, DataOf(content)),
                  NewCell(otherCls, otherContent, DataOf(otherContent))>>
    /\ last' = [handler |-> "__init__", calls |-> 0]
    /\ UNCHANGED <<monitor, local_tz, table, cells, sortingEnabled, sortIndicator,
                   queue, file, emitted, processed, cell, tradingVars>>

\* set_content(content, data) on one of the two cells
SetItemContent(id, content) ==
    /\ last.calls < MaxCalls
    /\ items' = [items EXCEPT ![id] = set_content(@, content, DataOf(content))]
    /\ last' = [handler |-> "set_content", calls |-> last.calls + 1]
    /\ UNCHANGED <<monitor, local_tz, table, cells, sortingEnabled, sortIndicator,
                   queue, file, emitted, processed, cell, tradingVars>>

CompareNext ==
    \/ \E cls \in CellClasses, otherCls \in CellClasses :
          \E content \in ComparedContents(cls),
             otherContent \in ComparedContents(otherCls) :
                ConstructPair(cls, content, otherCls, otherContent)
    \/ /\ items /= <<>>
       /\ \E id \in DOMAIN items :
             \E content \in ComparedContents(items[id].cls) :
                SetItemContent(id, content)

CompareSpec == CompareInit /\ [][CompareNext]_vars

-----------------------------------------------------------------------------
(* The order-entry widgets: TradingWidget, StockTradingWidget and          *)
(* TradingAssistantWidget.  The user edits the inputs and clicks; a        *)
(* handler reads the inputs, may show message boxes and may call           *)
(* main_engine.  Texts the user typed are parsed as Python parses them.    *)

\* str.strip: leading and trailing blanks removed
RECURSIVE lstrip(_)
lstrip(s) == IF s /= <<>> /\ Head(s) = " " THEN lstrip(Tail(s)) ELSE s

RECURSIVE rstrip(_)
rstrip(s) ==
    IF s /= <<>> /\ s[Len(s)] = " " THEN rstrip(SubSeq(s, 1, Len(s) - 1)) ELSE s

strip(s) == rstrip(lstrip(s))

\* str.split()[0] of a text that is not blank: the first word
RECURSIVE first_word(_)
first_word(s) ==
    IF s = <<>> \/ Head(s) = " " THEN <<>>
    ELSE <<Head(s)>> \o first_word(Tail(s))

\* the text without a leading sign
Unsigned(s) == IF s /= <<>> /\ Head(s) \in {"+", "-"} THEN Tail(s) ELSE s

IsDigits(s) ==
    /\ s /= <<>>
    /\ \A i \in 1..Len(s) : \E d \in 1..Len(DigitChars) : DigitChars[d] = s[i]

\* the natural number a digit string denotes
RECURSIVE Number(_)
Number(s) ==
    IF s = <<>> THEN 0
    ELSE 10 * Number(SubSeq(s, 1, Len(s) - 1))
         + ((CHOOSE d \in 1..Len(DigitChars) : DigitChars[d] = s[Len(s)]) - 1)

\* position of the decimal point in a text, 0 when there is none
DotAt(s) ==
    IF \E i \in 1..Len(s) : s[i] = "."
    THEN CHOOSE i \in 1..Len(s) : s[i] = "." /\ \A j \in 1..(i - 1) : s[j] /= "."
    ELSE 0

\* float(text) succeeds: blanks around, an optional sign, then digits with at
\* most one decimal point and at least one digit (the exponent, inf and nan
\* forms are not among the texts typed here)
float_parses(text) ==
    LET u == Unsigned(strip(text))
        dot == DotAt(u)
    IN  IF dot = 0 THEN IsDigits(u)
        ELSE LET ip == SubSeq(u, 1, dot - 1)
                 fp == SubSeq(u, dot + 1, Len(u))
             IN  /\ ip \o fp /= <<>>
                 /\ ip = <<>> \/ IsDigits(ip)
                 /\ fp = <<>> \/ IsDigits(fp)

\* float(text): sign, integer part and fractional digits, or ValueError
float(text) ==
    IF ~float_parses(text) THEN [t |-> "ValueError"]
    ELSE LET s == strip(text)
             u == Unsigned(s)
             dot == DotAt(u)
             ip == IF dot = 0 THEN u ELSE SubSeq(u, 1, dot - 1)
             fp == IF dot = 0 THEN <<>> ELSE SubSeq(u, dot + 1, Len(u))
         IN  [t |-> "number", neg |-> Head(s) = "-", ip |-> Number(ip),
              fp |-> fp]

\* int(text): blanks around, an optional sign, then digits only
int(text) ==
    LET s == strip(text)
    IN  IF ~IsDigits(Unsigned(s)) THEN [t |-> "ValueError"]
        ELSE [t |-> "number", neg |-> Head(s) = "-", ip |-> Number(Unsigned(s)),
              fp |-> <<>>]

\* int(x) of a float: truncation toward zero
int_of(x) == [x EXCEPT !.fp = <<>>]

\* the number 0
Zero == [t |-> "number", neg |-> FALSE, ip |-> 0, fp |-> <<>>]

\* x > 0
Positive(x) ==
    /\ ~x.neg
    /\ x.ip > 0 \/ \E i \in 1..Len(x.fp) : x.fp[i] /= "0"

\* texts the user types into TradingWidget's symbol line
SymbolTexts == {<<>>, <<"r", "b", "2", "4", "1", "0">>, <<"a", "u", "2", "4", "1", "2">>}

\* texts the user types into the symbol fields of the stock widgets
StockSymbolTexts == {<<>>, <<" ">>, <<"6", "0", "0", "0", "0", "0">>}

\* texts a line edit with the QDoubleValidator (bottom 0) lets the user leave
\* in the field: numbers, and the intermediate "1e"
ValidatedTexts ==
    {<<>>, <<"0">>, <<"1", "0", "0">>, <<"1", "0", ".", "5">>, <<"1", "e">>}

\* texts the user types into a field without validator
FreeTexts == ValidatedTexts \cup {<<"a", "b", "c">>, <<"-", "5">>}

\* ContractData of rb2410.SHFE, as main_engine.get_contract returns it
Contract_rb ==
    [vt_symbol |-> <<"r", "b", "2", "4", "1", "0", ".", "S", "H", "F", "E">>,
     name |-> <<"r", "b">>,
     gateway_name |-> <<"C", "T", "P">>,
     price_digits |-> 0]

\* what MainEngine holds: no gateway (and so no exchange); a gateway without
\* contracts; a gateway with one contract
Engines ==
    {[gateway_names |-> <<>>, exchanges |-> <<>>, contracts |-> {}],
     [gateway_names |-> <<<<"C", "T", "P">>>>, exchanges |-> <<Exchange_SHFE>>,
      contracts |-> {}],
     [gateway_names |-> <<<<"C", "T", "P">>>>, exchanges |-> <<Exchange_SHFE>>,
      contracts |-> {Contract_rb}]}

\* the order ids main_engine.send_order returns ("" when nothing was sent on)
OrderIds == {<<>>, <<"C", "T", "P", ".", "1">>}

\* main_engine.get_contract(vt_symbol)
get_contract(engine, vt_symbol) ==
    IF \E c \in engine.contracts : c.vt_symbol = vt_symbol
    THEN CHOOSE c \in engine.contracts : c.vt_symbol = vt_symbol
    ELSE None

\* main_engine.get_all_gateway_names()
get_all_gateway_names(engine) == engine.gateway_names

\* main_engine.get_all_exchanges()
get_all_exchanges(engine) == engine.exchanges

\* Exchange(text) finds a member with that value (it raises ValueError when
\* there is none)
Exchange(text) == text \in {Exchange_SHFE.value, <<"S", "S", "E">>}

\* QComboBox.currentText()
currentText(combo) ==
    IF combo.index >= 0 /\ combo.index < Len(combo.items)
    THEN combo.items[combo.index + 1]
    ELSE <<>>

\* QComboBox.findText(text): index of the first item with the text, or -1
findText(combo, text) ==
    IF \E i \in 1..Len(combo.items) : combo.items[i] = text
    THEN (CHOOSE i \in 1..Len(combo.items) :
             /\ combo.items[i] = text
             /\ \A j \in 1..(i - 1) : combo.items[j] /= text) - 1
    ELSE -1

\* a combo box filled with addItems(texts): the first item is current
ComboBox(texts) == [items |-> texts, index |-> IF texts = <<>> THEN -1 ELSE 0]

\* the labels clear_label_text empties
DepthLabels ==
    {"lp", "return", "bv1", "bv2", "bv3", "bv4", "bv5", "av1", "av2", "av3",
     "av4", "av5", "bp1", "bp2", "bp3", "bp4", "bp5", "ap1", "ap2", "ap3",
     "ap4", "ap5"}

\* what a handler left behind: the widget's state, the calls it made on
\* main_engine, the message boxes it showed, the exception that left it
Outcome(u) == [ui |-> u, calls |-> <<>>, boxes |-> <<>>, raised |-> "none"]

MessageBox(o, kind, text) ==
    [o EXCEPT !.boxes = Append(@, [kind |-> kind, text |-> text])]

Call(o, method, req, gateway_name) ==
    [o EXCEPT !.calls = Append(@, [method |-> method, req |-> req,
                                   gateway_name |-> gateway_name])]

Raised(o, exception) == [o EXCEPT !.raised = exception]

\* TradingWidget.__init__ / init_ui
TradingWidget_init(engine) ==
    [symbol_line |-> <<>>,
     exchange_combo |-> ComboBox([i \in DOMAIN get_all_exchanges(engine) |->
                                    get_all_exchanges(engine)[i].value]),
     name_line |-> <<>>,
     direction_combo |-> ComboBox(<<Direction_LONG.value, Direction_SHORT.value>>),
     offset_combo |-> ComboBox(<<<<>>, Offset_OPEN.value, Offset_CLOSE.value>>),
     order_type_combo |-> ComboBox(<<OrderType_LIMIT.value>>),
     price_line |-> <<>>,
     volume_line |-> <<>>,
     gateway_combo |-> ComboBox(get_all_gateway_names(engine)),
     price_check |-> FALSE,
     labels |-> [l \in DepthLabels |-> <<>>],
     vt_symbol |-> <<>>,
     price_digits |-> 0]

\* TradingWidget.clear_label_text
clear_label_text(u) == [u EXCEPT !.labels = [l \in DepthLabels |-> <<>>]]

\* TradingWidget.set_vt_symbol
TradingWidget_set_vt_symbol(u, engine) ==
    LET symbol == u.symbol_line
        exchange_value == currentText(u.exchange_combo)
        vt_symbol == symbol \o <<".">> \o exchange_value
        contract == get_contract(engine, vt_symbol)
        gateway_name == IF contract = None THEN currentText(u.gateway_combo)
                        ELSE contract.gateway_name
        named == IF contract = None
                 THEN [u EXCEPT !.vt_symbol = vt_symbol, !.name_line = <<>>]
                 ELSE [u EXCEPT !.vt_symbol = vt_symbol,
                                !.name_line = contract.name,
                                !.gateway_combo.index =
                                    findText(u.gateway_combo, contract.gateway_name),
                                !.price_digits = contract.price_digits]
        cleared == [clear_label_text(named) EXCEPT !.volume_line = <<>>,
                                                   !.price_line = <<>>]
    IN  IF symbol = <<>> THEN Outcome(u)
        ELSE IF vt_symbol = u.vt_symbol THEN Outcome(u)
        ELSE IF ~Exchange(exchange_value) THEN Raised(Outcome(cleared), "ValueError")
        ELSE Call(Outcome(cleared), "subscribe",
                  [symbol |-> symbol, exchange |-> exchange_value], gateway_name)

\* the OrderRequest TradingWidget.send_order builds
TradingWidget_request(u, volume, price) ==
    [symbol |-> u.symbol_line,
     exchange |-> currentText(u.exchange_combo),
     direction |-> currentText(u.direction_combo),
     type |-> currentText(u.order_type_combo),
     volume |-> volume,
     price |-> price,
     offset |-> currentText(u.offset_combo),
     reference |-> "ManualTrading"]

\* TradingWidget.send_order
TradingWidget_send_order(u, engine) ==
    LET volume == float(u.volume_line)
        price == IF u.price_line = <<>> THEN Zero ELSE float(u.price_line)
    IN  IF u.symbol_line = <<>>
        THEN MessageBox(Outcome(u), "critical", "please enter the contract code")
        ELSE IF u.volume_line = <<>>
        THEN MessageBox(Outcome(u), "critical", "please enter the order volume")
        ELSE IF volume.t = "ValueError" THEN Raised(Outcome(u), "ValueError")
        ELSE IF price.t = "ValueError" THEN Raised(Outcome(u), "ValueError")
        ELSE IF ~Exchange(currentText(u.exchange_combo))
        THEN Raised(Outcome(u), "ValueError")
        ELSE Call(Outcome(u), "send_order", TradingWidget_request(u, volume, price),
                  currentText(u.gateway_combo))

\* the values of StockTradingWidget's price spin box that are explored
\* (three decimals, from 0 to 9999.999)
SpinBoxPrices ==
    {Zero, [t |-> "number", neg |-> FALSE, ip |-> 166, fp |-> <<"6", "9", "5">>]}

\* StockTradingWidget.__init__ / init_trading_tab
StockTradingWidget_init ==
    [symbol_edit |-> <<"1", "2", "8", "1", "3", "1", " ", " ", "n">>,
     price_spinbox |-> [t |-> "number", neg |-> FALSE, ip |-> 166,
                        fp |-> <<"6", "9", "5">>],
     volume_combo |-> <<>>,
     vt_symbol |-> <<>>,
     price_digits |-> 2,
     max_sell_label |-> <<"6", ",", "0", "2", "0">>,
     available_balance |-> 0,
     position_volume |-> 0]

\* StockTradingWidget.on_symbol_changed
StockTradingWidget_on_symbol_changed(u, engine) ==
    LET symbol_text == strip(u.symbol_edit)
        symbol == first_word(symbol_text)
        gateway_names == get_all_gateway_names(engine)
        o == Outcome([u EXCEPT !.vt_symbol = symbol \o <<".", "S", "S", "E">>])
    IN  IF symbol_text = <<>> THEN Outcome(u)
        ELSE IF gateway_names /= <<>>
        THEN Call(o, "subscribe", [symbol |-> symbol, exchange |-> <<"S", "S", "E">>],
                  gateway_names[1])
        ELSE o

\* StockTradingWidget.get_order_volume
get_order_volume(u) ==
    LET volume_text == strip(u.volume_combo)
    IN  IF volume_text = <<>> THEN Zero
        ELSE IF float(volume_text).t = "ValueError" THEN Zero
        ELSE int_of(float(volume_text))

\* a variant of StockTradingWidget.send_order: the price is not checked
StockTradingWidget_send_order_any_price(u, engine, direction, vt_orderid) ==
    LET symbol_text == strip(u.symbol_edit)
        volume == get_order_volume(u)
        gateway_names == get_all_gateway_names(engine)
        req == [symbol |-> first_word(symbol_text), exchange |-> <<"S", "S", "E">>,
                direction |-> direction, type |-> OrderType_LIMIT.value,
                volume |-> volume, price |-> u.price_spinbox, offset |-> <<>>,
                reference |-> "StockTrading"]
    IN  IF symbol_text = <<>>
        THEN MessageBox(Outcome(u), "warning", "please enter the stock code")
        ELSE IF ~Positive(volume)
        THEN MessageBox(Outcome(u), "warning", "please enter a valid volume")
        ELSE IF gateway_names /= <<>>
        THEN Call(Outcome(u), "send_order", req, gateway_names[1])
        ELSE MessageBox(Outcome(u), "warning", "no trading gateway available")

\* StockTradingWidget.send_order; vt_orderid is what main_engine.send_order
\* returns when it is called
StockTradingWidget_send_order(u, engine, direction, vt_orderid) ==
    LET symbol_text == strip(u.symbol_edit)
        volume == get_order_volume(u)
        price == u.price_spinbox
        gateway_names == get_all_gateway_names(engine)
        req == [symbol |-> first_word(symbol_text), exchange |-> <<"S", "S", "E">>,
                direction |-> direction, type |-> OrderType_LIMIT.value,
                volume |-> volume, price |-> price, offset |-> <<>>,
                reference |-> "StockTrading"]
        sent == Call(Outcome(u), "send_order", req, gateway_names[1])
    IN  IF symbol_text = <<>>
        THEN MessageBox(Outcome(u), "warning", "please enter the stock code")
        ELSE IF ~Positive(volume)
        THEN MessageBox(Outcome(u), "warning", "please enter a valid volume")
        ELSE IF ~Positive(price)
        THEN MessageBox(Outcome(u), "warning", "please enter a valid price")
        ELSE IF gateway_names /= <<>>
        THEN IF vt_orderid /= <<>>
             THEN MessageBox(sent, "information", "order submitted")
             ELSE sent
        ELSE MessageBox(Outcome(u), "warning", "no trading gateway available")

\* the input rows of TradingAssistantWidget
AssistantRows == {"buy_1", "buy_2", "sell_1", "sell_2"}

\* TradingAssistantWidget.__init__ / init_buy_controls / init_sell_controls
TradingAssistantWidget_init ==
    [rows |-> [k \in AssistantRows |->
                  IF k \in {"buy_1", "sell_1"}
                  THEN [symbol |-> <<"6", "0", "0", "0", "0", "0">>,
                        price |-> <<"1", "2", "0", ".", "8">>,
                        qty |-> <<"5", "0", "0", "0">>]
                  ELSE [symbol |-> <<"0", "0", "0", "0", "0", "2">>,
                        price |-> <<"2", "0", ".", "8", "8">>,
                        qty |-> <<"2", "8", "9", "2", "0">>]],
     spinBox_buy |-> 1,
     spinBox_sell |-> 1]

\* TradingAssistantWidget.send_order, continuing from the outcome o so far
TradingAssistantWidget_send_order(o, symbol, price, quantity, direction, engine, id) ==
    LET gateway_names == get_all_gateway_names(engine)
        req == [symbol |-> symbol, exchange |-> <<"S", "S", "E">>,
                direction |-> direction, type |-> OrderType_LIMIT.value,
                volume |-> quantity, price |-> price, offset |-> <<>>,
                reference |-> "TradingAssistant"]
    IN  IF symbol = <<>> \/ ~Positive(price) \/ ~Positive(quantity)
        THEN MessageBox(o, "warning", "please enter valid trading parameters")
        ELSE IF gateway_names /= <<>>
        THEN IF id /= <<>>
             THEN MessageBox(Call(o, "send_order", req, gateway_names[1]),
                             "information", "order submitted")
             ELSE Call(o, "send_order", req, gateway_names[1])
        ELSE MessageBox(o, "warning", "no trading gateway available")

\* one row of on_buy_order_clicked / on_sell_order_clicked: the try block
\* and its except ValueError
order_row(o, fields, direction, engine, vt_orderid) ==
    LET symbol == strip(fields.symbol)
        price == float(IF fields.price = <<>> THEN <<"0">> ELSE fields.price)
        quantity == int(IF fields.qty = <<>> THEN <<"0">> ELSE fields.qty)
    IN  IF price.t = "ValueError" \/ quantity.t = "ValueError"
        THEN MessageBox(o, "warning", "row parameters are malformed")
        ELSE IF symbol /= <<>> /\ Positive(price) /\ Positive(quantity)
        THEN TradingAssistantWidget_send_order(o, symbol, price, quantity,
                                               direction, engine, vt_orderid)
        ELSE o

\* a variant of on_order_clicked: only the first row is handled
on_order_clicked_first_row_only(u, engine, section, vt_orderids) ==
    LET buy == section = "buy"
        direction == IF buy THEN Direction_LONG.value ELSE Direction_SHORT.value
        spinbox_value == IF buy THEN u.spinBox_buy ELSE u.spinBox_sell
        first == IF buy THEN u.rows["buy_1"] ELSE u.rows["sell_1"]
    IN  IF spinbox_value >= 1
        THEN order_row(Outcome(u), first, direction, engine, vt_orderids[1])
        ELSE Outcome(u)

\* TradingAssistantWidget.on_buy_order_clicked / on_sell_order_clicked for a
\* section ("buy" or "sell"); vt_orderids are main_engine.send_order's answers
on_order_clicked(u, engine, section, vt_orderids) ==
    LET buy == section = "buy"
        direction == IF buy THEN Direction_LONG.value ELSE Direction_SHORT.value
        spinbox_value == IF buy THEN u.spinBox_buy ELSE u.spinBox_sell
        first == IF buy THEN u.rows["buy_1"] ELSE u.rows["sell_1"]
        second == IF buy THEN u.rows["buy_2"] ELSE u.rows["sell_2"]
    IN  The({IF spinbox_value >= 2
             THEN order_row(o1, second, direction, engine, vt_orderids[2])
             ELSE o1 :
                o1 \in {IF spinbox_value >= 1
                        THEN order_row(Outcome(u), first, direction, engine,
                                       vt_orderids[1])
                        ELSE Outcome(u)}})

\* 10 to the power n
RECURSIVE Pow10(_)
Pow10(n) == IF n = 0 THEN 1 ELSE 10 * Pow10(n - 1)

\* the magnitude of a float in units of 10^-k (its repr has at most k
\* fractional digits)
Scaled(x, k) == x.ip * Pow10(k) + Number(x.fp) * Pow10(k - Len(x.fp))

\* f"{x:.{d}f}": d fractional digits, the nearest value, a tie to the even
\* digit (the ties among the numbers formatted here are exact in binary)
format_f(x, d) ==
    LET k == IF Len(x.fp) > d THEN Len(x.fp) ELSE d
        unit == Pow10(k - d)
        q == Scaled(x, k) \div unit
        r == Scaled(x, k) % unit
        rounded == IF 2 * r > unit \/ (2 * r = unit /\ q % 2 = 1) THEN q + 1 ELSE q
    IN  (IF x.neg THEN <<"-">> ELSE <<>>)
        \o Decimal(rounded \div Pow10(d))
        \o (IF d = 0 THEN <<>> ELSE <<".">> \o ZeroPad(rounded % Pow10(d), d))

\* f"{n:,}" of a natural number: groups of three digits
RECURSIVE format_thousands(_)
format_thousands(n) ==
    IF n < 1000 THEN Decimal(n)
    ELSE format_thousands(n \div 1000) \o <<",">> \o ZeroPad(n % 1000, 3)

\* (last_price / pre_close - 1) * 100, which is also
\* (last_price - pre_close) / pre_close * 100: the change in percent, to the
\* hundredth (prices have at most two fractional digits, pre_close is not 0)
change_pct(last_price, pre_close) ==
    LET l == Scaled(last_price, 2)
        p == Scaled(pre_close, 2)
        d == IF l >= p THEN l - p ELSE p - l
        c == (2 * d * 10000 + p) \div (2 * p)
    IN  PyFloat(l < p, c \div 100, ZeroPad(c % 100, 2))

\* a TickData; bid_price[i] stands for the attribute bid_price_i, and so on
TickData(vt_symbol, last_price, pre_close, high_price, low_price, open_price, bid_price, bid_volume, ask_price, ask_volume) ==
    [vt_symbol |-> vt_symbol, last_price |-> last_price, pre_close |-> pre_close,
     high_price |-> high_price, low_price |-> low_price, open_price |-> open_price,
     bid_price |-> bid_price, bid_volume |-> bid_volume,
     ask_price |-> ask_price, ask_volume |-> ask_volume]

\* a tick of rb2410.SHFE with one level of depth and no previous close
Tick_rb ==
    TickData(Contract_rb.vt_symbol, PyFloat(FALSE, 3520, <<"5">>), PyFloat(FALSE, 0, <<"0">>), PyFloat(FALSE, 0, <<"0">>), PyFloat(FALSE, 0, <<"0">>), PyFloat(FALSE, 0, <<"0">>),
             <<PyFloat(FALSE, 3520, <<"0">>), PyFloat(FALSE, 0, <<"0">>), PyFloat(FALSE, 0, <<"0">>), PyFloat(FALSE, 0, <<"0">>), PyFloat(FALSE, 0, <<"0">>)>>,
             <<PyFloat(FALSE, 10, <<"0">>), PyFloat(FALSE, 0, <<"0">>), PyFloat(FALSE, 0, <<"0">>), PyFloat(FALSE, 0, <<"0">>), PyFloat(FALSE, 0, <<"0">>)>>,
             <<PyFloat(FALSE, 3521, <<"0">>), PyFloat(FALSE, 0, <<"0">>), PyFloat(FALSE, 0, <<"0">>), PyFloat(FALSE, 0, <<"0">>), PyFloat(FALSE, 0, <<"0">>)>>,
             <<PyFloat(FALSE, 5, <<"0">>), PyFloat(FALSE, 0, <<"0">>), PyFloat(FALSE, 0, <<"0">>), PyFloat(FALSE, 0, <<"0">>), PyFloat(FALSE, 0, <<"0">>)>>)

\* a tick of rb2410.SHFE with five levels of depth
Tick_rb5 ==
    TickData(Contract_rb.vt_symbol, PyFloat(FALSE, 3520, <<"0">>), PyFloat(FALSE, 3200, <<"0">>), PyFloat(FALSE, 3530, <<"0">>), PyFloat(FALSE, 3190, <<"0">>), PyFloat(FALSE, 3200, <<"0">>),
             <<PyFloat(FALSE, 3519, <<"0">>), PyFloat(FALSE, 3518, <<"0">>), PyFloat(FALSE, 3517, <<"0">>), PyFloat(FALSE, 3516, <<"0">>), PyFloat(FALSE, 3515, <<"0">>)>>,
             <<PyFloat(FALSE, 10, <<"0">>), PyFloat(FALSE, 20, <<"0">>), PyFloat(FALSE, 30, <<"0">>), PyFloat(FALSE, 40, <<"0">>), PyFloat(FALSE, 50, <<"0">>)>>,
             <<PyFloat(FALSE, 3521, <<"0">>), PyFloat(FALSE, 3522, <<"0">>), PyFloat(FALSE, 3523, <<"0">>), PyFloat(FALSE, 3524, <<"0">>), PyFloat(FALSE, 3525, <<"0">>)>>,
             <<PyFloat(FALSE, 5, <<"0">>), PyFloat(FALSE, 15, <<"0">>), PyFloat(FALSE, 25, <<"0">>), PyFloat(FALSE, 35, <<"0">>), PyFloat(FALSE, 45, <<"0">>)>>)

\* a tick of the stock 600000.SSE with two levels of depth
Tick_600000 ==
    TickData(<<"6", "0", "0", "0", "0", "0", ".", "S", "S", "E">>, PyFloat(FALSE, 10, <<"5">>), PyFloat(FALSE, 10, <<"0">>), PyFloat(FALSE, 10, <<"6">>), PyFloat(FALSE, 9, <<"9", "5">>), PyFloat(FALSE, 10, <<"0">>),
             <<PyFloat(FALSE, 10, <<"4", "9">>), PyFloat(FALSE, 10, <<"0">>), PyFloat(FALSE, 0, <<"0">>), PyFloat(FALSE, 0, <<"0">>), PyFloat(FALSE, 0, <<"0">>)>>,
             <<PyFloat(FALSE, 1200, <<"0">>), PyFloat(FALSE, 800, <<"0">>), PyFloat(FALSE, 0, <<"0">>), PyFloat(FALSE, 0, <<"0">>), PyFloat(FALSE, 0, <<"0">>)>>,
             <<PyFloat(FALSE, 10, <<"5">>), PyFloat(FALSE, 10, <<"5", "1">>), PyFloat(FALSE, 0, <<"0">>), PyFloat(FALSE, 0, <<"0">>), PyFloat(FALSE, 0, <<"0">>)>>,
             <<PyFloat(FALSE, 1500, <<"0">>), PyFloat(FALSE, 300, <<"0">>), PyFloat(FALSE, 0, <<"0">>), PyFloat(FALSE, 0, <<"0">>), PyFloat(FALSE, 0, <<"0">>)>>)

\* the ticks the event engine delivers
Ticks == {Tick_rb, Tick_rb5, Tick_600000}

\* TradingWidget.process_tick_event
TradingWidget_process_tick_event(u, tick) ==
    LET price_digits == u.price_digits
        first == [u.labels EXCEPT
                     !["lp"] = format_f(tick.last_price, price_digits),
                     !["bp1"] = format_f(tick.bid_price[1], price_digits),
                     !["bv1"] = str(tick.bid_volume[1]),
                     !["ap1"] = format_f(tick.ask_price[1], price_digits),
                     !["av1"] = str(tick.ask_volume[1])]
        returned == IF Truthy(tick.pre_close)
                    THEN [first EXCEPT !["return"] =
                             format_f(change_pct(tick.last_price, tick.pre_close), 2)
                             \o <<"%">>]
                    ELSE first
        depth == IF Truthy(tick.bid_price[2])
                 THEN [returned EXCEPT
                     !["bp2"] = format_f(tick.bid_price[2], price_digits),
                     !["bv2"] = str(tick.bid_volume[2]),
                     !["ap2"] = format_f(tick.ask_price[2], price_digits),
                     !["av2"] = str(tick.ask_volume[2]),
                     !["bp3"] = format_f(tick.bid_price[3], price_digits),
                     !["bv3"] = str(tick.bid_volume[3]),
                     !["ap3"] = format_f(tick.ask_price[3], price_digits),
                     !["av3"] = str(tick.ask_volume[3]),
                     !["bp4"] = format_f(tick.bid_price[4], price_digits),
                     !["bv4"] = str(tick.bid_volume[4]),
                     !["ap4"] = format_f(tick.ask_price[4], price_digits),
                     !["av4"] = str(tick.ask_volume[4]),
                     !["bp5"] = format_f(tick.bid_price[5], price_digits),
                     !["bv5"] = str(tick.bid_volume[5]),
                     !["ap5"] = format_f(tick.ask_price[5], price_digits),
                     !["av5"] = str(tick.ask_volume[5])]
                 ELSE returned
    IN  IF tick.vt_symbol /= u.vt_symbol THEN Outcome(u)
        ELSE IF u.price_check
        THEN Outcome([u EXCEPT !.labels = depth,
                               !.price_line = format_f(tick.last_price, price_digits)])
        ELSE Outcome([u EXCEPT !.labels = depth])

\* QDoubleSpinBox.setValue on the price spin box: the range is 0 to 9999.999
\* (the values set here have at most three fractional digits)
setValue(x) ==
    IF x.neg THEN Zero
    ELSE IF x.ip > 9999
    THEN [t |-> "number", neg |-> FALSE, ip |-> 9999, fp |-> <<"9", "9", "9">>]
    ELSE [t |-> "number", neg |-> FALSE, ip |-> x.ip, fp |-> x.fp]

\* a variant of process_tick_event: the symbols are not compared
StockTradingWidget_process_tick_event_any_symbol(u, tick) ==
    IF ~Positive(u.price_spinbox)
    THEN Outcome([u EXCEPT !.price_spinbox = setValue(tick.last_price)])
    ELSE Outcome(u)

\* StockTradingWidget.process_tick_event (the spin box holds no negative
\* value: it is 0 exactly when it is not positive)
StockTradingWidget_process_tick_event(u, tick) ==
    IF tick.vt_symbol /= u.vt_symbol THEN Outcome(u)
    ELSE IF ~Positive(u.price_spinbox)
    THEN Outcome([u EXCEPT !.price_spinbox = setValue(tick.last_price)])
    ELSE Outcome(u)

\* int(x) of a float, as an integer
int_float(x) == IF x.neg THEN -x.ip ELSE x.ip

\* the position records of the stock account: vt_symbol and volume
StockPositions ==
    {[vt_symbol |-> <<"6", "0", "0", "0", "0", "0", ".", "S", "S", "E">>, volume |-> v] :
        v \in {PyFloat(FALSE, 0, <<"0">>), PyFloat(FALSE, 250, <<"0">>), PyFloat(FALSE, 360, <<"0">>), PyFloat(FALSE, 1000, <<"0">>)}}
    \cup {[vt_symbol |-> <<"0", "0", "0", "0", "0", "2", ".", "S", "S", "E">>, volume |-> PyFloat(FALSE, 500, <<"0">>)]}

\* StockTradingWidget.process_position_event
StockTradingWidget_process_position_event(u, position) ==
    IF position.vt_symbol /= u.vt_symbol THEN Outcome(u)
    ELSE Outcome([u EXCEPT
                     !.position_volume = int_float(position.volume),
                     !.max_sell_label =
                         IF position.volume.neg
                         THEN <<"-">> \o format_thousands(position.volume.ip)
                         ELSE format_thousands(position.volume.ip)])

\* the fractions of the radio buttons: 0.5, 1.0/3, 0.25 and 0.2, each written
\* as num/den
Fractions == {[num |-> 1, den |-> d] : d \in 2..5}

\* StockTradingWidget.on_fraction_selected; int(position_volume * fraction)
\* is the floor of the quotient for these fractions
StockTradingWidget_on_fraction_selected(u, fraction) ==
    LET volume == (u.position_volume * fraction.num) \div fraction.den
    IN  IF u.position_volume > 0
        THEN Outcome([u EXCEPT !.volume_combo = Decimal((volume \div 100) * 100)])
        ELSE Outcome(u)

\* the foreground a level's price gets against the previous close
QColor(price, pre_close) ==
    IF Scaled(price, 2) < Scaled(pre_close, 2) THEN "rgb(0, 170, 0)"
    ELSE IF Scaled(price, 2) > Scaled(pre_close, 2) THEN "rgb(255, 0, 0)"
    ELSE "rgb(255, 255, 255)"

\* Level2Widget.__init__ / init_ui: the labels and the ten rows of the bid
\* and ask tables with their sample data; of info_table the item (0, 1), the
\* only one a handler writes
Level2Widget_init ==
    [vt_symbol |-> <<>>,
     symbol_name |-> <<>>,
     windowTitle |-> <<>>,
     label_high_price |-> <<"4", ".", "1", "1">>,
     label_low_price |-> <<"4", ".", "0", "6">>,
     label_change_pct |-> <<"0", ".", "4", "9", "%">>,
     label_change_pct_styleSheet |-> "rgb(255, 0, 0)",
     label_open_price |-> <<"4", ".", "0", "7">>,
     label_pre_close_price |-> <<"4", ".", "0", "8">>,
     bid_table |-> [i \in 0..9 |->
                       [price |-> <<"4", ".">> \o ZeroPad(10 - i, 2),
                        volume |-> Decimal((i + 1) * 100),
                        foreground |-> QColor(float(<<"4", ".">> \o ZeroPad(10 - i, 2)),
                                              float(<<"4", ".", "0", "8">>))]],
     ask_table |-> [i \in 0..9 |->
                       [price |-> <<"4", ".">> \o ZeroPad(11 + i, 2),
                        volume |-> Decimal((10 - i) * 100),
                        foreground |-> QColor(float(<<"4", ".">> \o ZeroPad(11 + i, 2)),
                                              float(<<"4", ".", "0", "8">>))]],
     info_table_0_1 |-> <<"1", ",", "2", "0", "0">>]

\* the symbols the main window opens a Level2Widget for
Level2Symbols == {<<"6", "0", "0", "0", "0", "0", ".", "S", "S", "E">>, Contract_rb.vt_symbol}

\* Level2Widget.set_symbol
Level2Widget_set_symbol(u, engine, vt_symbol, symbol_name) ==
    LET dot == DotAt(vt_symbol)
        symbol == IF dot = 0 THEN vt_symbol ELSE SubSeq(vt_symbol, 1, dot - 1)
        exchange_str == IF dot = 0 THEN <<"S", "S", "E">>
                        ELSE SubSeq(vt_symbol, dot + 1, Len(vt_symbol))
        exchange == IF Exchange(exchange_str) THEN exchange_str
                    ELSE <<"S", "S", "E">>
        gateway_names == get_all_gateway_names(engine)
        o == Outcome([u EXCEPT !.vt_symbol = vt_symbol,
                               !.symbol_name = symbol_name,
                               !.windowTitle = symbol_name \o vt_symbol])
    IN  IF gateway_names /= <<>>
        THEN Call(o, "subscribe", [symbol |-> symbol, exchange |-> exchange],
                  gateway_names[1])
        ELSE o

\* a sequence of five in reverse order
Reversed(s) == [i \in 1..5 |-> s[6 - i]]

\* one loop of update_bid_ask_levels over a table: row i shows prices[i + 1]
update_levels(tbl, prices, volumes, pre_close) ==
    [i \in 0..9 |->
        IF i <= 4 /\ Truthy(prices[i + 1]) /\ Truthy(volumes[i + 1])
        THEN [price |-> format_f(prices[i + 1], 2),
              volume |-> format_thousands(int_float(volumes[i + 1])),
              foreground |-> IF Positive(pre_close)
                             THEN QColor(prices[i + 1], pre_close)
                             ELSE tbl[i].foreground]
        ELSE tbl[i]]

\* Level2Widget.update_bid_ask_levels: level i of the bids goes to row 5 - i,
\* level i of the asks to row i - 1
update_bid_ask_levels(u, tick) ==
    [u EXCEPT
        !.bid_table = update_levels(@, Reversed(tick.bid_price),
                                    Reversed(tick.bid_volume), tick.pre_close),
        !.ask_table = update_levels(@, tick.ask_price, tick.ask_volume,
                                    tick.pre_close)]

\* Level2Widget.process_tick_event
Level2Widget_process_tick_event(u, tick) ==
    LET up == Scaled(tick.last_price, 2) > Scaled(tick.pre_close, 2)
        down == Scaled(tick.last_price, 2) < Scaled(tick.pre_close, 2)
    IN  IF u.vt_symbol = <<>> \/ tick.vt_symbol /= u.vt_symbol THEN Outcome(u)
        ELSE Outcome(
            [update_bid_ask_levels(u, tick) EXCEPT
                !.info_table_0_1 = IF Truthy(tick.last_price)
                                   THEN format_f(tick.last_price, 2) ELSE @,
                !.label_high_price = IF Truthy(tick.high_price)
                                     THEN format_f(tick.high_price, 2) ELSE @,
                !.label_low_price = IF Truthy(tick.low_price)
                                    THEN format_f(tick.low_price, 2) ELSE @,
                !.label_open_price = IF Truthy(tick.open_price)
                                     THEN format_f(tick.open_price, 2) ELSE @,
                !.label_pre_close_price = IF Truthy(tick.pre_close)
                                          THEN format_f(tick.pre_close, 2) ELSE @,
                !.label_change_pct =
                    IF Truthy(tick.last_price) /\ Truthy(tick.pre_close)
                    THEN (IF down THEN <<>> ELSE <<"+">>)
                         \o format_f(change_pct(tick.last_price, tick.pre_close), 2)
                         \o <<"%">>
                    ELSE @,
                !.label_change_pct_styleSheet =
                    IF Truthy(tick.last_price) /\ Truthy(tick.pre_close)
                    THEN IF up THEN "rgb(255, 0, 0)"
                         ELSE IF down THEN "rgb(0, 170, 0)"
                         ELSE "rgb(255, 255, 255)"
                    ELSE @])

\* abs(x) of a float
abs(x) == [x EXCEPT !.neg = FALSE]

\* the records of the cells the user double-clicks: positions (long, short,
\* net with a positive and with a negative volume), a trade, and the None a
\* cell without data returns
CellData ==
    {Position_1a,
     [Position_1a EXCEPT !.direction = Direction_SHORT, !.volume = PyFloat(FALSE, 5, <<"0">>)],
     [Position_1a EXCEPT !.direction = Direction_NET, !.volume = PyFloat(FALSE, 4, <<"0">>),
                         !.symbol = PyStr(<<"r", "b", "2", "4", "1", "0">>)],
     [Position_1a EXCEPT !.direction = Direction_NET, !.volume = PyFloat(TRUE, 3, <<"0">>)],
     Trade_1,
     None}

\* isinstance(data, PositionData)
isinstance_PositionData(data) == "vt_positionid" \in DOMAIN data

\* a variant of update_with_cell: the volume is written before set_vt_symbol
TradingWidget_update_with_cell_volume_first(u, engine, data) ==
    LET typed == [u EXCEPT !.symbol_line = data.symbol.s,
                           !.exchange_combo.index =
                               findText(u.exchange_combo, data.exchange.value),
                           !.volume_line = str(abs(data.volume))]
        o == TradingWidget_set_vt_symbol(typed, engine)
        direction == IF data.direction = Direction_SHORT THEN Direction_LONG
                     ELSE IF data.direction = Direction_LONG THEN Direction_SHORT
                     ELSE IF Positive(data.volume) THEN Direction_SHORT
                     ELSE Direction_LONG
    IN  IF data = None THEN Raised(Outcome(u), "AttributeError")
        ELSE IF o.raised /= "none" THEN o
        ELSE IF isinstance_PositionData(data)
        THEN [o EXCEPT
                 !.ui.direction_combo.index =
                     findText(u.direction_combo, direction.value),
                 !.ui.offset_combo.index =
                     findText(u.offset_combo, Offset_CLOSE.value)]
        ELSE TradingWidget_set_vt_symbol(
                 [u EXCEPT !.symbol_line = data.symbol.s,
                           !.exchange_combo.index =
                               findText(u.exchange_combo, data.exchange.value)],
                 engine)

\* TradingWidget.update_with_cell, data being cell.get_data()
TradingWidget_update_with_cell(u, engine, data) ==
    LET typed == [u EXCEPT !.symbol_line = data.symbol.s,
                           !.exchange_combo.index =
                               findText(u.exchange_combo, data.exchange.value)]
        o == TradingWidget_set_vt_symbol(typed, engine)
        direction == IF data.direction = Direction_SHORT THEN Direction_LONG
                     ELSE IF data.direction = Direction_LONG THEN Direction_SHORT
                     ELSE IF Positive(data.volume) THEN Direction_SHORT
                     ELSE Direction_LONG
    IN  IF data = None THEN Raised(Outcome(u), "AttributeError")
        ELSE IF o.raised /= "none" THEN o
        ELSE IF isinstance_PositionData(data)
        THEN [o EXCEPT
                 !.ui.direction_combo.index =
                     findText(u.direction_combo, direction.value),
                 !.ui.offset_combo.index =
                     findText(u.offset_combo, Offset_CLOSE.value),
                 !.ui.volume_line = str(abs(data.volume))]
        ELSE o

\* OrderData.create_cancel_request
create_cancel_request(order) ==
    [orderid |-> order.orderid.s, symbol |-> order.symbol.s,
     exchange |-> order.exchange.value]

\* what main_engine.get_all_active_orders returns
ActiveOrders ==
    {<<>>,
     <<Order_1a>>,
     <<Order_1a, [Order_2a EXCEPT !.gateway_name = PyStr(<<"I", "B">>)]>>}

\* a variant of cancel_all: every request goes to the selected gateway
TradingWidget_cancel_all_selected_gateway(u, order_list) ==
    [Outcome(u) EXCEPT
        !.calls = [i \in 1..Len(order_list) |->
                      [method |-> "cancel_order",
                       req |-> create_cancel_request(order_list[i]),
                       gateway_name |-> currentText(u.gateway_combo)]]]

\* TradingWidget.cancel_all, order_list being the active orders
TradingWidget_cancel_all(u, order_list) ==
    [Outcome(u) EXCEPT
        !.calls = [i \in 1..Len(order_list) |->
                      [method |-> "cancel_order",
                       req |-> create_cancel_request(order_list[i]),
                       gateway_name |-> order_list[i].gateway_name.s]]]

-----------------------------------------------------------------------------
(* The order-entry widgets as a state machine: each step is one user       *)
(* action, the inputs typed before it included.                            *)

OrderWidgets == {"TradingWidget", "StockTradingWidget", "TradingAssistantWidget"}

\* the rows the user fills into a section of TradingAssistantWidget
RowTexts ==
    {[symbol |-> <<"6", "0", "0", "0", "0", "0">>, price |-> <<"1", "2", "0", ".", "8">>,
      qty |-> <<"5", "0", "0", "0">>],
     [symbol |-> <<>>, price |-> <<"1", "2", "0", ".", "8">>,
      qty |-> <<"5", "0", "0", "0">>],
     [symbol |-> <<"6", "0", "0", "0", "0", "0">>, price |-> <<"a", "b", "c">>,
      qty |-> <<"5", "0", "0", "0">>],
     [symbol |-> <<"6", "0", "0", "0", "0", "0">>, price |-> <<"1", "2", "0", ".", "8">>,
      qty |-> <<"1", "0", ".", "5">>],
     [symbol |-> <<"6", "0", "0", "0", "0", "0">>, price |-> <<>>,
      qty |-> <<"5", "0", "0", "0">>]}

\* the values the user sets the spin box of a section to
SpinBoxValues == 0..2

\* the direction each button of StockTradingWidget sends
button_direction(button) ==
    CASE button \in {"buy", "cover"} -> Direction_LONG.value
      [] button \in {"sell", "sell_short"} -> Direction_SHORT.value

OrderInit ==
    /\ monitor = "LogMonitor"
    /\ local_tz \in MonitorZones
    /\ items = <<>>
    /\ table = <<>>
    /\ cells = <<>>
    /\ sortingEnabled = FALSE
    /\ sortIndicator = [section |-> 0, order |-> "Descending"]
    /\ queue = <<>>
    /\ file = <<>>
    /\ emitted = <<>>
    /\ processed = <<>>
    /\ last = [handler |-> "__init__"]
    /\ cell = NoCell
    /\ widget \in OrderWidgets
    /\ main_engine \in Engines
    /\ ui = CASE widget = "TradingWidget" -> TradingWidget_init(main_engine)
              [] widget = "StockTradingWidget" -> StockTradingWidget_init
              [] widget = "TradingAssistantWidget" -> TradingAssistantWidget_init
    /\ act = [handler |-> "__init__"]

\* the handler ran from the widget state u (the inputs typed) to the outcome o
Did(handler, u, o) ==
    /\ ui' = o.ui
    /\ act' = [handler |-> handler, before |-> u, calls |-> o.calls,
               boxes |-> o.boxes, raised |-> o.raised]
    /\ UNCHANGED <<monitorVars, cell, widget, main_engine>>

\* the handler ran on data (an event's record, an argument, an answer of the
\* engine) from the widget state u to the outcome o
DidWith(handler, u, o, data) ==
    /\ ui' = o.ui
    /\ act' = [handler |-> handler, before |-> u, calls |-> o.calls,
               boxes |-> o.boxes, raised |-> o.raised, data |-> data]
    /\ UNCHANGED <<monitorVars, cell, widget, main_engine>>

\* The user types a symbol into TradingWidget's symbol line and presses Return.
SetVtSymbol(symbol) ==
    /\ widget = "TradingWidget"
    /\ \E u \in {[ui EXCEPT !.symbol_line = symbol]} :
          \E o \in {TradingWidget_set_vt_symbol(u, main_engine)} :
             Did("set_vt_symbol", u, o)

\* The user fills in TradingWidget's symbol, volume and price and clicks the
\* send button.
SendOrder(symbol, volume, price) ==
    /\ widget = "TradingWidget"
    /\ \E u \in {[ui EXCEPT !.symbol_line = symbol, !.volume_line = volume,
                            !.price_line = price]} :
          \E o \in {TradingWidget_send_order(u, main_engine)} :
             Did("send_order", u, o)

\* The user types into StockTradingWidget's symbol field and presses Return.
OnSymbolChanged(text) ==
    /\ widget = "StockTradingWidget"
    /\ \E u \in {[ui EXCEPT !.symbol_edit = text]} :
          \E o \in {StockTradingWidget_on_symbol_changed(u, main_engine)} :
             Did("on_symbol_changed", u, o)

\* The user fills in StockTradingWidget's symbol, volume and price and clicks
\* one of the four order buttons.
StockSendOrder(text, volume, price, button, vt_orderid) ==
    /\ widget = "StockTradingWidget"
    /\ \E u \in {[ui EXCEPT !.symbol_edit = text, !.volume_combo = volume,
                            !.price_spinbox = price]} :
          \E o \in {StockTradingWidget_send_order(u, main_engine,
                                                  button_direction(button),
                                                  vt_orderid)} :
             Did("send_order", u, o)

\* The user fills in the two rows of a section of TradingAssistantWidget (the
\* other section as it was constructed), sets the section's spin box and
\* clicks the section's order button.
OnOrderClicked(section, first, second, value, vt_orderid) ==
    /\ widget = "TradingAssistantWidget"
    /\ \E u \in {IF section = "buy"
                 THEN [TradingAssistantWidget_init EXCEPT
                          !.rows["buy_1"] = first, !.rows["buy_2"] = second,
                          !.spinBox_buy = value]
                 ELSE [TradingAssistantWidget_init EXCEPT
                          !.rows["sell_1"] = first, !.rows["sell_2"] = second,
                          !.spinBox_sell = value]} :
          \E o \in {on_order_clicked(u, main_engine, section,
                                     <<vt_orderid, vt_orderid>>)} :
             Did(IF section = "buy" THEN "on_buy_order_clicked"
                 ELSE "on_sell_order_clicked", u, o)

\* The user clicks TradingWidget's cancel-all button while the engine holds
\* the active orders order_list.
CancelAll(order_list) ==
    /\ widget = "TradingWidget"
    /\ \E o \in {TradingWidget_cancel_all(ui, order_list)} :
          DidWith("cancel_all", ui, o, order_list)

OrderNext ==
    \/ \E order_list \in ActiveOrders : CancelAll(order_list)
    \/ \E symbol \in SymbolTexts : SetVtSymbol(symbol)
    \/ \E symbol \in SymbolTexts, volume \in ValidatedTexts, price \in ValidatedTexts :
          SendOrder(symbol, volume, price)
    \/ \E text \in StockSymbolTexts : OnSymbolChanged(text)
    \/ \E text \in StockSymbolTexts, volume \in FreeTexts, price \in SpinBoxPrices,
          button \in {"buy", "sell", "sell_short", "cover"}, vt_orderid \in OrderIds :
          StockSendOrder(text, volume, price, button, vt_orderid)
    \/ \E section \in {"buy", "sell"}, first \in RowTexts, second \in RowTexts,
          value \in SpinBoxValues, vt_orderid \in OrderIds :
          OnOrderClicked(section, first, second, value, vt_orderid)

OrderSpec == OrderInit /\ [][OrderNext]_vars

-----------------------------------------------------------------------------
(* The widgets that show quotes, as a state machine: ticks and positions   *)
(* arrive from the event engine while the user changes the symbol.         *)

QuoteWidgets == {"TradingWidget", "StockTradingWidget", "Level2Widget"}

QuoteInit ==
    /\ monitor = "LogMonitor"
    /\ local_tz \in MonitorZones
    /\ items = <<>>
    /\ table = <<>>
    /\ cells = <<>>
    /\ sortingEnabled = FALSE
    /\ sortIndicator = [section |-> 0, order |-> "Descending"]
    /\ queue = <<>>
    /\ file = <<>>
    /\ emitted = <<>>
    /\ processed = <<>>
    /\ last = [handler |-> "__init__"]
    /\ cell = NoCell
    /\ widget \in QuoteWidgets
    /\ main_engine \in Engines
    /\ ui = CASE widget = "TradingWidget" -> TradingWidget_init(main_engine)
              [] widget = "StockTradingWidget" -> StockTradingWidget_init
              [] widget = "Level2Widget" -> Level2Widget_init
    /\ act = [handler |-> "__init__"]

\* The user ticks or unticks TradingWidget's price check box.
TogglePriceCheck ==
    /\ widget = "TradingWidget"
    /\ ui' = [ui EXCEPT !.price_check = ~@]
    /\ act' = [handler |-> "toggled"]
    /\ UNCHANGED <<monitorVars, cell, widget, main_engine>>

\* The user sets StockTradingWidget's price spin box.
EditPrice(price) ==
    /\ widget = "StockTradingWidget"
    /\ ui' = [ui EXCEPT !.price_spinbox = price]
    /\ act' = [handler |-> "valueChanged"]
    /\ UNCHANGED <<monitorVars, cell, widget, main_engine>>

\* The event engine delivers a tick to the widget.
ProcessTickEvent(tick) ==
    \E o \in {CASE widget = "TradingWidget" ->
                      TradingWidget_process_tick_event(ui, tick)
                [] widget = "StockTradingWidget" ->
                      StockTradingWidget_process_tick_event(ui, tick)
                [] widget = "Level2Widget" ->
                      Level2Widget_process_tick_event(ui, tick)} :
       DidWith("process_tick_event", ui, o, tick)

\* The event engine delivers a position to StockTradingWidget.
ProcessPositionEvent(position) ==
    /\ widget = "StockTradingWidget"
    /\ \E o \in {StockTradingWidget_process_position_event(ui, position)} :
          DidWith("process_position_event", ui, o, position)

\* The user clicks one of StockTradingWidget's fraction radio buttons.
OnFractionSelected(fraction) ==
    /\ widget = "StockTradingWidget"
    /\ \E o \in {StockTradingWidget_on_fraction_selected(ui, fraction)} :
          DidWith("on_fraction_selected", ui, o, fraction)

\* The user double-clicks a cell of a monitor: TradingWidget.update_with_cell
\* runs on the record the cell carries (the monitors have rows only when a
\* gateway delivers records).
UpdateWithCell(data) ==
    /\ widget = "TradingWidget"
    /\ get_all_gateway_names(main_engine) /= <<>>
    /\ \E o \in {TradingWidget_update_with_cell(ui, main_engine, data)} :
          DidWith("update_with_cell", ui, o, data)

\* The main window points the Level2Widget to a symbol.
SetSymbol(vt_symbol, symbol_name) ==
    /\ widget = "Level2Widget"
    /\ \E o \in {Level2Widget_set_symbol(ui, main_engine, vt_symbol, symbol_name)} :
          DidWith("set_symbol", ui, o, vt_symbol)

QuoteNext ==
    \/ \E symbol \in SymbolTexts : SetVtSymbol(symbol)
    \/ TogglePriceCheck
    \/ \E tick \in Ticks : ProcessTickEvent(tick)
    \/ \E data \in CellData : UpdateWithCell(data)
    \/ \E text \in StockSymbolTexts : OnSymbolChanged(text)
    \/ \E price \in SpinBoxPrices : EditPrice(price)
    \/ \E position \in StockPositions : ProcessPositionEvent(position)
    \/ \E fraction \in Fractions : OnFractionSelected(fraction)
    \/ \E vt_symbol \in Level2Symbols, symbol_name \in {<<>>, <<"r", "b">>} :
          SetSymbol(vt_symbol, symbol_name)

QuoteSpec == QuoteInit /\ [][QuoteNext]_vars

-----------------------------------------------------------------------------
(* Claims about the cell formatters.                                       *)

IsDigit(ch) == \E i \in 1..Len(DigitChars) : DigitChars[i] = ch

\* C10: for every timestamp with microsecond component u, TimeCell shows a
\* text of the form HH:MM:SS.mmm whose fraction is exactly the three digits of
\* floor(u / 1000), zero-padded on the left.
C10_TimeOfDayThreeDigitMilliseconds ==
    (cell.created /\ cell.obj.cls = "TimeCell" /\ Given /= None) =>
        LET text == cell.obj.text
            ms == Given.microsecond \div 1000
        IN  /\ Len(text) = 12
            /\ \A i \in {1, 2, 4, 5, 7, 8} : IsDigit(text[i])
            /\ text[3] = ":" /\ text[6] = ":" /\ text[9] = "."
            /\ SubSeq(text, 10, 12) = <<DigitChars[(ms \div 100) + 1],
                                        DigitChars[((ms \div 10) % 10) + 1],
                                        DigitChars[(ms % 10) + 1]>>

\* C11: any two cells, of any class, order by the lexicographic comparison of
\* the texts they display: a < b exactly when a's displayed text is smaller
\* than b's.
C11_CellsOrderByRenderedText ==
    \A a \in DOMAIN items : \A b \in DOMAIN items :
        Cell_lt(items[a], items[b]) <=> StrLt(items[a].text, items[b].text)

\* C12: a DirectionCell has the long colour when the value it was last given
\* is long, and the short colour for every other value (short, net, absent),
\* at construction and after every set_content.
C12_DirectionColour ==
    (cell.created /\ cell.obj.cls = "DirectionCell") =>
        cell.obj.foreground = IF Given = Direction_LONG THEN "COLOR_LONG"
                              ELSE "COLOR_SHORT"

\* C13: an EnumCell shows the label of the value it was last given, and the
\* empty text when that value is absent, also when an absent value follows a
\* present one.
C13_EnumLabelOrEmpty ==
    (cell.created /\ cell.obj.cls \in {"EnumCell", "DirectionCell"}) =>
        cell.obj.text = IF Given = None THEN <<>> ELSE Given.value

\* C14: a PnlCell has the short colour exactly when the text it displays
\* starts with a minus sign and the long colour otherwise; after every
\* set_content the colour goes with the latest text.
C14_PnlColourFollowsText ==
    (cell.created /\ cell.obj.cls = "PnlCell") =>
        /\ cell.obj.text = str(Given)
        /\ cell.obj.foreground =
              IF Len(cell.obj.text) > 0 /\ Head(cell.obj.text) = "-"
              THEN "COLOR_SHORT" ELSE "COLOR_LONG"

\* a PnlCell that showed a gain is given a loss and turns to the short colour
C14_Witness ==
    /\ cell.created /\ cell.obj.cls = "PnlCell" /\ Len(cell.given) = 2
    /\ cell.prev.foreground = "COLOR_LONG"
    /\ cell.obj.foreground = "COLOR_SHORT"
    /\ Head(cell.obj.text) = "-"

\* C15: a TimeCell given an absent timestamp keeps the text it displayed
\* before the call (the empty text for a fresh cell); nothing else happens.
C15_AbsentTimeKeepsText ==
    (cell.created /\ cell.obj.cls = "TimeCell" /\ Given = None) =>
        /\ cell.obj.text = cell.prev.text
        /\ cell.obj = cell.prev

\* a TimeCell that displays a time is given an absent timestamp
C15_Witness ==
    /\ cell.created /\ cell.obj.cls = "TimeCell" /\ Len(cell.given) = 2
    /\ Given = None
    /\ cell.prev.text /= <<>>
    /\ cell.obj.text = cell.prev.text

-----------------------------------------------------------------------------
(* Further claims about the monitors.                                      *)

\* the record of the latest processed event that carried key k
LatestRecord(k) ==
    processed[CHOOSE i \in 1..Len(processed) :
                /\ KeyOf(processed[i]) = k
                /\ \A j \in (i + 1)..Len(processed) : KeyOf(processed[j]) /= k].data

\* C18: in an ActiveOrderMonitor the row that holds an order id's cells is
\* hidden exactly when the latest event for the id carried an order that is
\* not active (an order active again is shown again), also after the table
\* was sorted; no other row is hidden.
C18_HiddenIffInactive ==
    monitor = "ActiveOrderMonitor" =>
        /\ \A k \in DOMAIN cells :
              table[KeyRow(k)].hidden <=> ~LatestRecord(k).is_active.b
        /\ \A r \in 1..Len(table) :
              table[r].hidden => \E k \in DOMAIN cells : KeyRow(k) = r

\* an order that was not active is active again and its row, not the top
\* one, is shown
C18_Witness ==
    /\ monitor = "ActiveOrderMonitor"
    /\ Len(processed) = 3 /\ Len(table) = 2
    /\ KeyOf(processed[1]) = KeyOf(processed[3])
    /\ ~processed[1].data.is_active.b
    /\ processed[3].data.is_active.b
    /\ KeyRow(KeyOf(processed[3])) = 2
    /\ ~table[2].hidden

\* C19: in a monitor with a row key the registry and the table agree: the
\* registry's keys are the key values seen, there are as many entries as
\* rows, each entry holds exactly the columns marked update=True, and the
\* cells of an entry lie in one row that holds no other key's cells.
C19_RegistryMatchesTable ==
    Keyed =>
        /\ DOMAIN cells = SeenKeys
        /\ Cardinality(DOMAIN cells) = Len(table)
        /\ \A k \in DOMAIN cells :
              /\ DOMAIN cells[k] = {headers(monitor)[c].name :
                                      c \in {d \in 1..columnCount(monitor) :
                                                headers(monitor)[d].update}}
              /\ \E r \in 1..Len(table) :
                    /\ \A h \in DOMAIN cells[k] : cells[k][h] \in RowIds(table, r)
                    /\ \A k2 \in DOMAIN cells \ {k} : \A h \in DOMAIN cells[k2] :
                          cells[k2][h] \notin RowIds(table, r)

\* two keys, one of them updated, in a table the user has sorted
C19_Witness ==
    /\ Keyed /\ Len(processed) = 3 /\ Len(table) = 2
    /\ Cardinality(DOMAIN cells) = 2
    /\ sortIndicator.section > 0

\* C20: every cell of a key's row returns from get_data() the record of the
\* latest event for the key, whichever column the cell is in.
C20_CellsCarryLatestRecord ==
    Keyed =>
        \A k \in DOMAIN cells : \A id \in RowIds(table, KeyRow(k)) :
            get_data(items[id]) = LatestRecord(k)

-----------------------------------------------------------------------------
(* Claims about the order-entry widgets.                                   *)

\* a text the user typed that is not a number
Malformed(text) == text /= <<>> /\ float(text).t = "ValueError"

\* the send_order calls the latest handler made
SendOrderCalls == SelectSeq(act.calls, LAMBDA c : c.method = "send_order")

\* the rows of the section the latest click of TradingAssistantWidget processed
ClickedRows ==
    LET section == IF act.handler = "on_buy_order_clicked" THEN "buy" ELSE "sell"
        value == IF section = "buy" THEN act.before.spinBox_buy
                 ELSE act.before.spinBox_sell
    IN  [i \in 1..(IF value >= 2 THEN 2 ELSE value) |->
            act.before.rows[IF section = "buy"
                            THEN (IF i = 1 THEN "buy_1" ELSE "buy_2")
                            ELSE (IF i = 1 THEN "sell_1" ELSE "sell_2")]]

\* a row whose price or quantity text does not parse
MalformedRow(fields) ==
    \/ float(IF fields.price = <<>> THEN <<"0">> ELSE fields.price).t = "ValueError"
    \/ int(IF fields.qty = <<>> THEN <<"0">> ELSE fields.qty).t = "ValueError"

\* C16: in every order-entry widget a price or quantity text that is not a
\* number is caught when the order is submitted: no exception leaves the
\* handler, a message box is shown, and main_engine.send_order is not called
\* for that order.
C16_ParseErrorsCaught ==
    /\ (widget = "TradingWidget" /\ act.handler = "send_order"
          /\ (Malformed(act.before.volume_line) \/ Malformed(act.before.price_line))) =>
            /\ act.raised = "none"
            /\ act.boxes /= <<>>
            /\ SendOrderCalls = <<>>
    /\ (widget = "StockTradingWidget" /\ act.handler = "send_order"
          /\ Malformed(act.before.volume_combo)) =>
            /\ act.raised = "none"
            /\ act.boxes /= <<>>
            /\ SendOrderCalls = <<>>
    /\ (widget = "TradingAssistantWidget"
          /\ act.handler \in {"on_buy_order_clicked", "on_sell_order_clicked"}) =>
            LET malformed == {i \in DOMAIN ClickedRows : MalformedRow(ClickedRows[i])}
            IN  /\ act.raised = "none"
                /\ Len(SelectSeq(act.boxes, LAMBDA b : b.kind = "warning"))
                      >= Cardinality(malformed)
                /\ Len(SendOrderCalls) <= Len(ClickedRows) - Cardinality(malformed)

\* the latest action reached the point where it needs a gateway
NeedsGateway ==
    \/ /\ widget = "StockTradingWidget" /\ act.handler = "on_symbol_changed"
       /\ strip(act.before.symbol_edit) /= <<>>
    \/ /\ widget = "StockTradingWidget" /\ act.handler = "send_order"
       /\ strip(act.before.symbol_edit) /= <<>>
       /\ Positive(get_order_volume(act.before))
       /\ Positive(act.before.price_spinbox)
    \/ /\ widget = "TradingAssistantWidget"
       /\ act.handler \in {"on_buy_order_clicked", "on_sell_order_clicked"}
       /\ \E i \in DOMAIN ClickedRows :
             /\ ~MalformedRow(ClickedRows[i])
             /\ strip(ClickedRows[i].symbol) /= <<>>
             /\ Positive(float(ClickedRows[i].price))
             /\ Positive(int(ClickedRows[i].qty))

\* the latest action asked for the contract of a newly entered symbol
NeedsContract ==
    /\ widget = "TradingWidget" /\ act.handler = "set_vt_symbol"
    /\ act.before.symbol_line /= <<>>
    /\ act.before.symbol_line \o <<".">> \o currentText(act.before.exchange_combo)
          /= act.before.vt_symbol

\* C17: when the engine reports no gateways, or no contract for the symbol
\* entered, the user action shows a warning and is aborted: it makes no
\* subscribe and no send_order call.
C17_AbsentEngineAnswerAborts ==
    /\ (NeedsGateway /\ get_all_gateway_names(main_engine) = <<>>) =>
          /\ \E i \in DOMAIN act.boxes : act.boxes[i].kind = "warning"
          /\ act.calls = <<>>
    /\ (NeedsContract
          /\ get_contract(main_engine,
                          act.before.symbol_line \o <<".">>
                             \o currentText(act.before.exchange_combo)) = None) =>
          /\ \E i \in DOMAIN act.boxes : act.boxes[i].kind = "warning"
          /\ act.calls = <<>>


-----------------------------------------------------------------------------
(* Further claims about the order-entry widgets.                           *)

\* the symbol.exchange text set_vt_symbol combines from the inputs u
Combined(u) == u.symbol_line \o <<".">> \o currentText(u.exchange_combo)

\* C21: TradingWidget.set_vt_symbol calls main_engine.subscribe exactly once
\* when the combined symbol.exchange differs from the monitored vt_symbol,
\* and then every depth label and the price and volume inputs are empty;
\* with an empty symbol text, or when the combined value is the monitored
\* vt_symbol, it makes no call and changes nothing in the widget.
C21_SubscribeOncePerNewSymbol ==
    (widget = "TradingWidget" /\ act.handler = "set_vt_symbol") =>
        IF act.before.symbol_line /= <<>>
              /\ Combined(act.before) /= act.before.vt_symbol
        THEN /\ Len(act.calls) = 1
             /\ act.calls[1].method = "subscribe"
             /\ \A l \in DepthLabels : ui.labels[l] = <<>>
             /\ ui.price_line = <<>>
             /\ ui.volume_line = <<>>
        ELSE /\ act.calls = <<>>
             /\ ui = act.before

\* C22: a tick whose vt_symbol is not the one the widget monitors changes
\* nothing in the widget (TradingWidget, StockTradingWidget and Level2Widget,
\* the latter also before any symbol was set) and makes no call.
C22_OtherSymbolsTickChangesNothing ==
    (act.handler = "process_tick_event"
        /\ act.data.vt_symbol /= act.before.vt_symbol) =>
            /\ ui = act.before
            /\ act.calls = <<>>

\* a tick of another symbol reached a StockTradingWidget whose price was 0
C22_Witness ==
    /\ widget = "StockTradingWidget" /\ act.handler = "process_tick_event"
    /\ act.before.vt_symbol /= <<>>
    /\ act.data.vt_symbol /= act.before.vt_symbol
    /\ ~Positive(act.before.price_spinbox)

\* the direction that closes a position
ClosingDirection(position) ==
    IF position.direction = Direction_SHORT THEN Direction_LONG
    ELSE IF position.direction = Direction_LONG THEN Direction_SHORT
    ELSE IF ~position.volume.neg /\ position.volume.ip > 0 THEN Direction_SHORT
    ELSE Direction_LONG

\* C23: update_with_cell on a position record selects the direction opposite
\* to the position's (for a net position SHORT when volume > 0, else LONG),
\* selects the offset CLOSE and leaves the absolute value of the position
\* volume in the volume input, whether or not the symbol changed.
C23_PositionCellPreparesClosingOrder ==
    (widget = "TradingWidget" /\ act.handler = "update_with_cell"
        /\ act.data /= None /\ isinstance_PositionData(act.data)) =>
            /\ currentText(ui.direction_combo) = ClosingDirection(act.data).value
            /\ currentText(ui.offset_combo) = Offset_CLOSE.value
            /\ ui.volume_line =
                  Decimal(act.data.volume.ip) \o <<".">> \o act.data.volume.fp

\* a net position with a negative volume was double-clicked, the symbol
\* changed and the volume input was filled before
C23_Witness ==
    /\ widget = "TradingWidget" /\ act.handler = "update_with_cell"
    /\ act.data /= None /\ isinstance_PositionData(act.data)
    /\ act.data.direction = Direction_NET /\ act.data.volume.neg
    /\ Len(act.calls) = 1
    /\ act.before.volume_line /= <<>>

\* C24: cancel_all makes exactly one cancel_order call for every active
\* order, in the order's own gateway, and no other call.
C24_CancelAllCancelsEachActiveOrder ==
    (widget = "TradingWidget" /\ act.handler = "cancel_all") =>
        /\ Len(act.calls) = Len(act.data)
        /\ \A i \in DOMAIN act.data :
              /\ act.calls[i].method = "cancel_order"
              /\ act.calls[i].req.orderid = act.data[i].orderid.s
              /\ act.calls[i].req.symbol = act.data[i].symbol.s
              /\ act.calls[i].gateway_name = act.data[i].gateway_name.s

\* two active orders of different gateways were cancelled
C24_Witness ==
    /\ widget = "TradingWidget" /\ act.handler = "cancel_all"
    /\ Len(act.data) = 2
    /\ act.data[1].gateway_name /= act.data[2].gateway_name
    /\ currentText(act.before.gateway_combo) /= act.data[2].gateway_name.s

\* C25: TradingWidget.send_order with an empty symbol text, or else an empty
\* volume text, shows one critical message and sends nothing; with both
\* present it calls main_engine.send_order exactly once, with reference
\* "ManualTrading", the selected gateway, and price 0 for an empty price text.
C25_SendOrderOnceWhenSymbolAndVolumeGiven ==
    (widget = "TradingWidget" /\ act.handler = "send_order") =>
        IF act.before.symbol_line = <<>> \/ act.before.volume_line = <<>>
        THEN /\ act.calls = <<>>
             /\ Len(act.boxes) = 1
             /\ act.boxes[1].kind = "critical"
             /\ act.boxes[1].text =
                   IF act.before.symbol_line = <<>>
                   THEN "please enter the contract code"
                   ELSE "please enter the order volume"
        ELSE /\ Len(act.calls) = 1
             /\ act.calls[1].method = "send_order"
             /\ act.calls[1].req.reference = "ManualTrading"
             /\ act.calls[1].gateway_name = currentText(act.before.gateway_combo)
             /\ act.before.price_line = <<>> => act.calls[1].req.price = Zero

\* a row of TradingAssistantWidget with a symbol, a price > 0 and a
\* quantity > 0
ValidRow(fields) ==
    /\ ~MalformedRow(fields)
    /\ strip(fields.symbol) /= <<>>
    /\ fields.price /= <<>> /\ Positive(float(fields.price))
    /\ fields.qty /= <<>> /\ Positive(int(fields.qty))

\* C26: every send_order call of StockTradingWidget and of
\* TradingAssistantWidget carries a symbol that is not empty, a volume > 0
\* and a price > 0; when one of the three fails, no call is made.
C26_OrdersCarryValidParameters ==
    /\ (widget \in {"StockTradingWidget", "TradingAssistantWidget"}
          /\ act.handler \in {"send_order", "on_buy_order_clicked",
                              "on_sell_order_clicked"}) =>
            \A i \in DOMAIN SendOrderCalls :
               /\ SendOrderCalls[i].req.symbol /= <<>>
               /\ Positive(SendOrderCalls[i].req.volume)
               /\ Positive(SendOrderCalls[i].req.price)
    /\ (widget = "StockTradingWidget" /\ act.handler = "send_order"
          /\ \/ strip(act.before.symbol_edit) = <<>>
             \/ ~Positive(get_order_volume(act.before))
             \/ ~Positive(act.before.price_spinbox)) =>
            SendOrderCalls = <<>>
    /\ (widget = "TradingAssistantWidget"
          /\ act.handler \in {"on_buy_order_clicked", "on_sell_order_clicked"}) =>
            Len(SendOrderCalls)
               <= Cardinality({i \in DOMAIN ClickedRows : ValidRow(ClickedRows[i])})

\* an order of StockTradingWidget went out: the volume text "10.5" gave the
\* volume 10
C26_Witness ==
    /\ widget = "StockTradingWidget" /\ act.handler = "send_order"
    /\ Len(SendOrderCalls) = 1
    /\ SendOrderCalls[1].req.symbol = <<"6", "0", "0", "0", "0", "0">>
    /\ SendOrderCalls[1].req.volume.ip = 10
    /\ SendOrderCalls[1].req.price.ip = 166

\* C27: one click of the buy (sell) order button with spin-box value v sends
\* at most one order for row 1 when v >= 1 and at most one for row 2 when
\* v >= 2, none when v = 0, each with direction LONG (SHORT); a row is sent
\* whatever the other row holds, and no order is sent again when send_order
\* returned an empty order id.
C27_OneOrderPerRowPerClick ==
    (widget = "TradingAssistantWidget"
        /\ act.handler \in {"on_buy_order_clicked", "on_sell_order_clicked"}) =>
        LET valid == SelectSeq(ClickedRows, ValidRow)
        IN  /\ Len(SendOrderCalls) <= Len(ClickedRows)
            /\ Len(SendOrderCalls) =
                  IF get_all_gateway_names(main_engine) = <<>> THEN 0 ELSE Len(valid)
            /\ \A i \in DOMAIN SendOrderCalls :
                  /\ SendOrderCalls[i].req.direction =
                        IF act.handler = "on_buy_order_clicked"
                        THEN Direction_LONG.value ELSE Direction_SHORT.value
                  /\ i <= Len(valid) =>
                        SendOrderCalls[i].req.symbol = strip(valid[i].symbol)

\* the first row did not parse, the second was sent, and send_order returned
\* an empty order id
C27_Witness ==
    /\ widget = "TradingAssistantWidget"
    /\ act.handler = "on_sell_order_clicked"
    /\ Len(ClickedRows) = 2
    /\ MalformedRow(ClickedRows[1])
    /\ ValidRow(ClickedRows[2])
    /\ Len(SendOrderCalls) = 1
    /\ \A i \in DOMAIN act.boxes : act.boxes[i].kind /= "information"

\* C28: on_fraction_selected with a position volume p > 0 sets the volume to
\* p * fraction rounded to the nearest 100 shares, a multiple of 100 that
\* does not exceed p; with p <= 0 it leaves the volume input unchanged.
C28_FractionRoundedToNearestHundred ==
    (widget = "StockTradingWidget" /\ act.handler = "on_fraction_selected") =>
        IF act.before.position_volume > 0
        THEN \E v \in 0..act.before.position_volume :
                /\ ui.volume_combo = Decimal(v)
                /\ v % 100 = 0
                /\ 2 * (v * act.data.den - act.before.position_volume * act.data.num)
                      <= 100 * act.data.den
                /\ 2 * (act.before.position_volume * act.data.num - v * act.data.den)
                      <= 100 * act.data.den
        ELSE ui = act.before

=============================================================================
